---- MODULE Spec2Model ----
(***************************************************************************)
(* CloudFileManager: the ingestion pipeline.                               *)
(*                                                                         *)
(* Two deployments live in the repository and are modelled side by side:   *)
(*   - the Lambda pipeline (Spec): the upload handler (presigned direct    *)
(*     upload, then process_upload), the virus-scan handler and the        *)
(*     metadata analyzer, all working on one S3 bucket and one DynamoDB    *)
(*     table keyed by file_id;                                             *)
(*   - the Flask API (SpecApi): POST /files and its services, working on   *)
(*     StorageService and MetadataService.                                 *)
(* Every call to S3, DynamoDB, SNS or Lambda may raise; whether it does is *)
(* a nondeterministic input of the step that makes the call.               *)
(***************************************************************************)
EXTENDS Integers, Sequences, FiniteSets, TLC

\* ---------------------------------------------------------------- bounds
NumFiles == 1          \* upload attempts (one object key each)
MaxEventRecords == 1   \* S3 records in one scan event
MaxUuid == 2           \* uuid4 file ids process_upload may draw
MaxAnalyzed == 2       \* records the metadata analyzer may add per key
MaxPublish == 2        \* quarantine notifications counted per key
MaxRequests == 2       \* POST /files requests
NumQuarantined == 2    \* uploads of the quarantine scenario
MaxCandidates == 2     \* records a scan returns to one search
MaxBatchRecords == 2   \* records in one event of the scan handler

Keys == 1..NumFiles

\* ------------------------------------------------------------ file content
\* What the bytes of an upload are, as far as the handlers can tell:
\* "eicar" makes run_clamav_scan report infected, "large" is over the 500MB
\* the scan handler skips, "clean" is neither.
Kinds == {"clean", "eicar", "large"}

NoObj == [kind |-> "none", meta |-> FALSE]
Objects == [kind : Kinds, meta : BOOLEAN]

\* os.path.basename(key): every upload of the model carries the same file
\* name, the case in which two quarantine keys of one day coincide.
BaseName(k) == 1
Names == {BaseName(k) : k \in Keys}

\* ---------------------------------------------------------------- records
\* An item of the DynamoDB table.  key = 0 and bucket = "none" stand for an
\* item without these attributes (the analyzer's items); status "none" for
\* an item without upload_status; scan is scan_result.scan_status, refined
\* by threat_detected ("clean" / "infected"), or "none" without scan_result.
Statuses == {"none", "processing", "available", "infected"}
ScanStates == {"none", "skipped", "clean", "infected", "error"}

VARIABLES
    cfg,        \* environment of the Lambda deployment
    s3obj,      \* primary bucket: key -> object or NoObj
    created,    \* keys an object was ever put at (ObjectCreated happened)
    demoKeys,   \* keys whose md5 makes the mock scan_file report a threat
    quarantine, \* quarantine bucket: name -> key whose bytes lie there, or 0
    table,      \* DynamoDB table of the Lambda deployment: set of items
    uuids,      \* uuid4 ids drawn by process_upload so far
    extractQ,   \* keys with an analyzer invocation in flight
    up,         \* the upload handler's invocation (process_upload)
    sc,         \* the scan handler's invocation
    handled,    \* keys whose infected verdict has been handled to the end
    published,  \* key -> quarantine notifications published
    qlog,       \* what the last handle_infected_file attempted
    presign,    \* the last generate_presigned_url request and its answer
    apiStore,   \* bucket of StorageService: set of objects
    apiTable,   \* table of MetadataService: set of items
    requests,   \* POST /files requests received so far
    req,        \* the POST /files request being served, or the last one served
    op,         \* the other API request being served, or the last one served
    srch,       \* the GET /search request being served, or the last one
    versioning, \* whether the bucket of StorageService keeps versions
    tg          \* the PUT /files/<id>/tags request being served, or the last

lambdaVars == <<cfg, s3obj, created, demoKeys, quarantine, table, uuids,
                extractQ, up, sc, handled, published, qlog, presign>>
mgmtVars == <<op, tg, srch, versioning>>
apiVars == <<apiStore, apiTable, requests, req, mgmtVars>>

\* QUARANTINE_BUCKET and NOTIFICATION_TOPIC of virus_scan_lambda,
\* VIRUS_SCAN_ENDPOINT and METADATA_ANALYZER_FUNCTION of upload_handler_lambda:
\* set or not.
Configs == [quarantineBucket : BOOLEAN, notificationTopic : BOOLEAN,
            virusScanEndpoint : BOOLEAN, analyzerFunction : BOOLEAN]

\* resp: the statusCode of the invocation that ended last.
UpIdle == [pc |-> "idle", key |-> 0, id |-> <<"none", 0, 0>>, status |-> "none",
           scan |-> "none", resp |-> "none"]
\* ev[i]: the record the loop is at; res: its scan result.
ScIdle == [pc |-> "idle", ev |-> <<>>, i |-> 0, res |-> "none",
           resp |-> "none"]
ScDone(code) == [ScIdle EXCEPT !.resp = code]
NoQLog == [key |-> 0, copy |-> "none", delete |-> "none", publish |-> "none"]
\* key: the key the URL was signed for, 0 if none was.
NoUrl == [filename |-> <<>>, resp |-> "none", key |-> 0]

InitLambda ==
    /\ cfg \in Configs
    /\ s3obj = [k \in Keys |-> NoObj]
    /\ created = {}
    /\ demoKeys = {}
    /\ quarantine = [n \in Names |-> 0]
    /\ table = {}
    /\ uuids = 0
    /\ extractQ = {}
    /\ up = UpIdle
    /\ sc = ScIdle
    /\ handled = {}
    /\ published = [k \in Keys |-> 0]
    /\ qlog = NoQLog
    /\ presign = NoUrl

\* table.put_item(Item=item): the item replaces the one with the same file_id.
PutItem(t, item) == {r \in t : r.id # item.id} \cup {item}

\* ------------------------------------------------- upload handler (Lambda)
\* generate_presigned_url issues a key under a fresh uuid; the client then
\* PUTs the bytes to it.  meta: whether the object carries the file_id
\* metadata the URL was signed with.
\* demo: whether md5(bucket + key) of the new key starts with 'a'.
PresignedPut(k, kind, meta, demo) ==
    /\ k \notin created
    /\ s3obj' = [s3obj EXCEPT ![k] = [kind |-> kind, meta |-> meta]]
    /\ created' = created \cup {k}
    /\ demoKeys' = IF demo THEN demoKeys \cup {k} ELSE demoKeys
    /\ UNCHANGED <<apiVars, presign, cfg, quarantine, table, uuids, extractQ,
                   up, sc, handled, published, qlog>>

\* ALLOWED_EXTENSIONS of the upload handler, each with its leading ".".
ALLOWED_EXTENSIONS ==
    {<<".", "p", "d", "f">>, <<".", "d", "o", "c">>,
     <<".", "d", "o", "c", "x">>, <<".", "t", "x", "t">>,
     <<".", "r", "t", "f">>, <<".", "o", "d", "t">>, <<".", "c", "s", "v">>,
     <<".", "x", "l", "s">>, <<".", "x", "l", "s", "x">>,
     <<".", "j", "p", "g">>, <<".", "j", "p", "e", "g">>,
     <<".", "p", "n", "g">>, <<".", "g", "i", "f">>, <<".", "b", "m", "p">>,
     <<".", "t", "i", "f", "f">>, <<".", "s", "v", "g">>,
     <<".", "m", "p", "3">>, <<".", "w", "a", "v">>, <<".", "m", "p", "4">>,
     <<".", "a", "v", "i">>, <<".", "m", "o", "v">>, <<".", "f", "l", "v">>,
     <<".", "z", "i", "p">>, <<".", "t", "a", "r">>, <<".", "g", "z">>,
     <<".", "r", "a", "r">>, <<".", "j", "s", "o", "n">>,
     <<".", "x", "m", "l">>, <<".", "h", "t", "m", "l">>,
     <<".", "c", "s", "s">>, <<".", "j", "s">>}

\* MAX_FILE_SIZE of the upload handler, 5 * 1024^3 bytes as [gib, rest].
UPLOAD_MAX_FILE_SIZE == [gib |-> 5, rest |-> 0]

\* str.lower() on the characters the model's names use.
ascii_lowercase ==
    [A |-> "a", B |-> "b", C |-> "c", D |-> "d", E |-> "e", F |-> "f",
     G |-> "g", H |-> "h", I |-> "i", J |-> "j", K |-> "k", L |-> "l",
     M |-> "m", N |-> "n", O |-> "o", P |-> "p", Q |-> "q", R |-> "r",
     S |-> "s", T |-> "t", U |-> "u", V |-> "v", W |-> "w", X |-> "x",
     Y |-> "y", Z |-> "z"]
LowerChar(c) ==
    IF c \in DOMAIN ascii_lowercase THEN ascii_lowercase[c] ELSE c
Lower(str) == [i \in DOMAIN str |-> LowerChar(str[i])]

\* sub in str, of two Python strings.
Contains(sub, str) ==
    \E i \in 0..(Len(str) - Len(sub)) : SubSeq(str, i + 1, i + Len(sub)) = sub

\* str.startswith(prefix).
StartsWith(str, prefix) ==
    Len(prefix) <= Len(str) /\ SubSeq(str, 1, Len(prefix)) = prefix

\* os.path.splitext(filename)[1].lower(), for a name without "/": from the
\* last "." on, unless only dots stand before it.
SplitExt(filename) ==
    IF \E i \in DOMAIN filename :
          filename[i] = "." /\ \E j \in 1..(i - 1) : filename[j] # "."
    THEN LET last == CHOOSE i \in DOMAIN filename :
                        /\ filename[i] = "."
                        /\ \A j \in DOMAIN filename :
                              filename[j] = "." => j <= i
         IN Lower(SubSeq(filename, last, Len(filename)))
    ELSE <<>>

\* The statusCode of generate_presigned_url.  hasName: the query holds
\* 'filename'; signOk: s3.generate_presigned_url does not raise (if it
\* does, the except of handler answers 500).
generate_presigned_url(hasName, filename, file_size, signOk) ==
    IF ~hasName THEN "400"
    ELSE IF SplitExt(filename) \notin ALLOWED_EXTENSIONS THEN "400"
    ELSE IF file_size.gib > UPLOAD_MAX_FILE_SIZE.gib
            \/ (file_size.gib = UPLOAD_MAX_FILE_SIZE.gib
                /\ file_size.rest > UPLOAD_MAX_FILE_SIZE.rest) THEN "400"
    ELSE IF ~signOk THEN "500"
    ELSE "200"

\* GET on the upload handler: a URL for a key under a new uuid4, or 400.
GeneratePresignedUrl(k, hasName, filename, file_size, signOk) ==
    /\ k \notin created
    /\ LET code == generate_presigned_url(hasName, filename, file_size,
                                          signOk)
       IN presign' = [filename |-> IF hasName THEN filename ELSE <<>>,
                      resp |-> code,
                      key |-> IF code = "200" THEN k ELSE 0]
    /\ UNCHANGED <<apiVars, cfg, s3obj, created, demoKeys, quarantine, table,
                   uuids, extractQ, up, sc, handled, published, qlog>>

\* The client PUTs the bytes to the URL it was given; the object carries the
\* file_id metadata the URL was signed with.
UrlPut(kind, demo) ==
    /\ presign.resp = "200"
    /\ PresignedPut(presign.key, kind, TRUE, demo)

\* The mock verdict of scan_file: md5(bucket + key) starts with 'a'.  It is a
\* function of the key alone, fixed when the key is generated.
DemoInfected(k) == k \in demoKeys

\* scan_file(bucket, key) of the upload handler: scan_status, refined by
\* threat_detected.  raises: presigning (or the service call) raises.
scan_file(k, raises) ==
    IF ~cfg.virusScanEndpoint THEN "skipped"
    ELSE IF raises THEN "error"
    ELSE IF DemoInfected(k) THEN "infected" ELSE "clean"

\* scan_result.get('threat_detected', False)
ThreatDetected(scan) == scan = "infected"

\* The file id of process_upload: the object's file_id metadata, else a uuid4.
UploadFileId(k) ==
    IF s3obj[k].meta THEN <<"meta", k, 0>> ELSE <<"uuid", 0, uuids + 1>>

UpDone(code) == [UpIdle EXCEPT !.resp = code]

\* process_upload up to the scan: head_object, the initial metadata, scan_file.
ProcessUploadHead(k, headOk, scanRaises) ==
    /\ up.pc = "idle"
    /\ IF ~headOk \/ s3obj[k] = NoObj
       THEN \* head_object raises: the except of process_upload answers 500
            /\ up' = UpDone("500")
            /\ UNCHANGED uuids
       ELSE /\ s3obj[k].meta \/ uuids < MaxUuid
            /\ uuids' = IF s3obj[k].meta THEN uuids ELSE uuids + 1
            /\ LET scan == IF cfg.virusScanEndpoint
                           THEN scan_file(k, scanRaises) ELSE "none"
               IN up' = [pc |-> "put", key |-> k, id |-> UploadFileId(k),
                         status |-> IF ThreatDetected(scan) THEN "infected"
                                    ELSE "processing",
                         scan |-> scan, resp |-> "none"]
    /\ UNCHANGED <<apiVars, presign, cfg, s3obj, created, demoKeys,
                   quarantine, table, extractQ, sc, handled, published, qlog>>

\* The item process_upload writes.
UploadItem == [id |-> up.id, key |-> up.key, bucket |-> "primary",
               status |-> up.status, scan |-> up.scan]

ProcessUploadPut_Triggers(ok) ==
    /\ up.pc = "put"
    /\ IF ok
       THEN /\ table' = PutItem(table, UploadItem)
            /\ up' = [up EXCEPT !.pc = "trigger"]
       ELSE /\ up' = UpDone("500")
            /\ UNCHANGED table
    /\ UNCHANGED <<apiVars, presign, cfg, s3obj, created, demoKeys,
                   quarantine, uuids, extractQ, sc, handled, published, qlog>>

\* table.put_item(Item=metadata), on either branch.
ProcessUploadPut(ok) ==
    /\ up.pc = "put"
    /\ IF ok
       THEN /\ table' = PutItem(table, UploadItem)
            /\ up' = [up EXCEPT !.pc = IF up.status = "infected"
                                         THEN "delete" ELSE "trigger"]
       ELSE /\ up' = UpDone("500")
            /\ UNCHANGED table
    /\ UNCHANGED <<apiVars, presign, cfg, s3obj, created, demoKeys,
                   quarantine, uuids, extractQ, sc, handled, published, qlog>>

\* The infected branch: s3.delete_object, then 400.
ProcessUploadDelete(ok) ==
    /\ up.pc = "delete"
    /\ IF ok
       THEN /\ s3obj' = [s3obj EXCEPT ![up.key] = NoObj]
            /\ up' = UpDone("400")
       ELSE /\ up' = UpDone("500")
            /\ UNCHANGED s3obj
    /\ handled' = handled \cup {up.key}
    /\ UNCHANGED <<apiVars, presign, cfg, created, demoKeys, quarantine,
                   table, uuids, extractQ, sc, published, qlog>>

\* trigger_metadata_extraction, then 200.  A failing invoke is printed only.
ProcessUploadTrigger(ok) ==
    /\ up.pc = "trigger"
    /\ extractQ' = IF cfg.analyzerFunction /\ ok
                   THEN extractQ \cup {up.key} ELSE extractQ
    /\ up' = UpDone("200")
    /\ UNCHANGED <<apiVars, presign, cfg, s3obj, created, demoKeys,
                   quarantine, table, uuids, sc, handled, published, qlog>>

\* ---------------------------------------------------- virus-scan handler
\* The handler is invoked with an S3 event: records of objects that were
\* created.  Delivery is at least once, so an event may come again.
EventsOver(S) ==
    {e \in UNION {[1..n -> S] : n \in 1..MaxEventRecords} :
        \A i, j \in DOMAIN e : i # j => e[i] # e[j]}

ScanInvoke(ev) ==
    /\ sc.pc = "idle"
    /\ \A i \in DOMAIN ev : ev[i] \in created
    /\ sc' = [pc |-> "size", ev |-> ev, i |-> 1, res |-> "none",
              resp |-> "none"]
    /\ UNCHANGED <<apiVars, presign, cfg, s3obj, created, demoKeys,
                   quarantine, table, uuids, extractQ, up, handled, published,
                   qlog>>

\* The loop of handler moving to its next record, or returning 200.
NextRecord(w) ==
    IF w.i < Len(w.ev)
    THEN [w EXCEPT !.pc = "size", !.i = w.i + 1, !.res = "none"]
    ELSE ScDone("200")

\* get_file_size and the 500MB test.  head_object raising is not caught in
\* the loop: the handler's except ends the whole event with 500.
ScanSize(ok) ==
    /\ sc.pc = "size"
    /\ LET k == sc.ev[sc.i]
       IN sc' = IF ~ok \/ s3obj[k] = NoObj THEN ScDone("500")
                ELSE IF s3obj[k].kind = "large" THEN NextRecord(sc)
                ELSE [sc EXCEPT !.pc = "scan"]
    /\ UNCHANGED <<apiVars, presign, cfg, s3obj, created, demoKeys,
                   quarantine, table, uuids, extractQ, up, handled, published,
                   qlog>>

\* run_clamav_scan on the downloaded bytes.
run_clamav_scan(obj) == IF obj.kind = "eicar" THEN "infected" ELSE "clean"

\* scan_s3_file: download, ensure_clamav, run_clamav_scan; any exception
\* gives the result with scan_status 'error' (and no threat_detected).
scan_s3_file(k, ok) ==
    IF ~ok \/ s3obj[k] = NoObj THEN "error" ELSE run_clamav_scan(s3obj[k])

ScanFile(ok) ==
    /\ sc.pc = "scan"
    /\ sc' = [sc EXCEPT !.pc = "update", !.res = scan_s3_file(sc.ev[sc.i], ok)]
    /\ UNCHANGED <<apiVars, presign, cfg, s3obj, created, demoKeys,
                   quarantine, table, uuids, extractQ, up, handled, published,
                   qlog>>

\* The upload_status update_metadata writes for a scan result.
UploadStatusFor(scan) ==
    IF ThreatDetected(scan) THEN "infected" ELSE "available"

\* The items the filter of update_metadata matches.
ItemsFor(k) == {r \in table : r.key = k /\ r.bucket = "primary"}

\* update_item on the item found: scan_result and upload_status are set,
\* whatever the item holds.
UpdateItem(r, scan) ==
    [r EXCEPT !.scan = scan, !.status = UploadStatusFor(scan)]

\* An update_metadata that updates every item its filter matches.
ScanUpdate_AllMatches(scanOk, updOk) ==
    /\ sc.pc = "update"
    /\ LET k == sc.ev[sc.i]
       IN table' = IF scanOk /\ updOk
                   THEN (table \ ItemsFor(k))
                           \cup {UpdateItem(r, sc.res) : r \in ItemsFor(k)}
                   ELSE table
    /\ sc' = IF ThreatDetected(sc.res) THEN [sc EXCEPT !.pc = "infected"]
             ELSE NextRecord(sc)
    /\ UNCHANGED <<apiVars, presign, cfg, s3obj, created, demoKeys,
                   quarantine, uuids, extractQ, up, handled, published, qlog>>

\* update_metadata, then the branch on threat_detected.  scanOk, updOk: the
\* table scan and the update_item succeed; an exception is logged only.
\* items[0] is whichever matching item the table scan returns first.
ScanUpdate(scanOk, updOk) ==
    /\ sc.pc = "update"
    /\ LET k == sc.ev[sc.i]
       IN IF scanOk /\ updOk /\ ItemsFor(k) # {}
          THEN \E r \in ItemsFor(k) :
                  table' = (table \ {r}) \cup {UpdateItem(r, sc.res)}
          ELSE UNCHANGED table
    /\ sc' = IF ThreatDetected(sc.res) THEN [sc EXCEPT !.pc = "infected"]
             ELSE NextRecord(sc)
    /\ UNCHANGED <<apiVars, presign, cfg, s3obj, created, demoKeys,
                   quarantine, uuids, extractQ, up, handled, published, qlog>>

\* handle_infected_file: copy_object, delete_object and publish in one try
\* block, so the first call that raises ends the function.  For each call:
\* "none" (not made), "ok" or "raised".
InfectedOutcome(k, copyOk, delOk, pubOk) ==
    LET copy == IF ~cfg.quarantineBucket THEN "none"
                ELSE IF copyOk /\ s3obj[k] # NoObj THEN "ok" ELSE "raised"
        del == IF copy # "ok" THEN "none"
               ELSE IF delOk THEN "ok" ELSE "raised"
        pub == IF copy = "raised" \/ del = "raised" \/ ~cfg.notificationTopic
               THEN "none"
               ELSE IF pubOk THEN "ok" ELSE "raised"
    IN [key |-> k, copy |-> copy, delete |-> del, publish |-> pub]

\* A handler that lets a failed publish end the event with 500.
ScanInfected_Surfaces(copyOk, delOk, pubOk) ==
    /\ sc.pc = "infected"
    /\ LET k == sc.ev[sc.i]
           o == InfectedOutcome(k, copyOk, delOk, pubOk)
       IN /\ o.publish = "ok" => published[k] < MaxPublish
          /\ quarantine' = IF o.copy = "ok"
                           THEN [quarantine EXCEPT ![BaseName(k)] = k]
                           ELSE quarantine
          /\ s3obj' = IF o.delete = "ok" THEN [s3obj EXCEPT ![k] = NoObj]
                      ELSE s3obj
          /\ published' = IF o.publish = "ok"
                          THEN [published EXCEPT ![k] = @ + 1]
                          ELSE published
          /\ qlog' = o
          /\ handled' = handled \cup {k}
          /\ sc' = IF o.publish = "raised" THEN ScDone("500")
                   ELSE NextRecord(sc)
    /\ UNCHANGED <<apiVars, presign, cfg, created, demoKeys, table, uuids,
                   extractQ, up>>

\* The quarantine key is infected/<date>/<basename>; the date is one day.
ScanInfected(copyOk, delOk, pubOk) ==
    /\ sc.pc = "infected"
    /\ LET k == sc.ev[sc.i]
           o == InfectedOutcome(k, copyOk, delOk, pubOk)
       IN /\ o.publish = "ok" => published[k] < MaxPublish
          /\ quarantine' = IF o.copy = "ok"
                           THEN [quarantine EXCEPT ![BaseName(k)] = k]
                           ELSE quarantine
          /\ s3obj' = IF o.delete = "ok" THEN [s3obj EXCEPT ![k] = NoObj]
                      ELSE s3obj
          /\ published' = IF o.publish = "ok"
                          THEN [published EXCEPT ![k] = @ + 1]
                          ELSE published
          /\ qlog' = o
          /\ handled' = handled \cup {k}
    /\ sc' = NextRecord(sc)
    /\ UNCHANGED <<apiVars, presign, cfg, created, demoKeys, table, uuids,
                   extractQ, up>>

\* ------------------------------------------------------ metadata analyzer
\* The items the analyzer has stored for key k; their file_id is
\* md5(bucket + key + now), a new one on every run.
AnalyzerItems(k) == {r \in table : r.id[1] = "md5" /\ r.id[2] = k}

\* An analyzer that stores its item under the file_id the object carries.
AnalyzerItem_UploadId(k) ==
    [id |-> <<"meta", k, 0>>, key |-> 0,
     bucket |-> "none", status |-> "none", scan |-> "none"]

AnalyzerItem(k) ==
    [id |-> <<"md5", k, Cardinality(AnalyzerItems(k)) + 1>>, key |-> 0,
     bucket |-> "none", status |-> "none", scan |-> "none"]

\* handler of the analyzer on the event process_upload sent for k.  ok:
\* head_object and put_item succeed (a failing extraction backend only
\* degrades the item).  again: the event stays to be delivered once more.
AnalyzerRun(k, ok, again) ==
    /\ k \in extractQ
    /\ IF ok /\ s3obj[k] # NoObj
       THEN /\ Cardinality(AnalyzerItems(k)) < MaxAnalyzed
            /\ table' = PutItem(table, AnalyzerItem(k))
       ELSE UNCHANGED table
    /\ extractQ' = IF again THEN extractQ ELSE extractQ \ {k}
    /\ UNCHANGED <<apiVars, presign, cfg, s3obj, created, demoKeys,
                   quarantine, uuids, up, sc, handled, published, qlog>>

\* ------------------------------------------------- the Lambda deployment
NextLambda ==
    \/ \E k \in Keys, kind \in Kinds, meta, demo \in BOOLEAN :
          PresignedPut(k, kind, meta, demo)
    \/ \E k \in Keys, headOk, scanRaises \in BOOLEAN :
          ProcessUploadHead(k, headOk, scanRaises)
    \/ \E ok \in BOOLEAN : ProcessUploadPut(ok)
    \/ \E ok \in BOOLEAN : ProcessUploadDelete(ok)
    \/ \E ok \in BOOLEAN : ProcessUploadTrigger(ok)
    \/ \E ev \in EventsOver(Keys) : ScanInvoke(ev)
    \/ \E ok \in BOOLEAN : ScanSize(ok)
    \/ \E ok \in BOOLEAN : ScanFile(ok)
    \/ \E scanOk, updOk \in BOOLEAN : ScanUpdate(scanOk, updOk)
    \/ \E copyOk, delOk, pubOk \in BOOLEAN : ScanInfected(copyOk, delOk, pubOk)
    \/ \E k \in Keys, ok, again \in BOOLEAN : AnalyzerRun(k, ok, again)

\* =========================================================== the Flask API
\* ---------------------------------------------------------- SecurityService
\* A size in bytes is GiB * 2^30 + rest, so that 5 GiB and its neighbours are
\* exact.
Size(gib, rest) == [gib |-> gib, rest |-> rest]
SizeGreater(a, b) == a.gib > b.gib \/ (a.gib = b.gib /\ a.rest > b.rest)

\* MAX_FILE_SIZE = 5 * 1024 * 1024 * 1024
MAX_FILE_SIZE == Size(5, 0)

ALLOWED_MIME_TYPES ==
    {"application/pdf", "application/msword",
     "application/vnd.openxmlformats-officedocument.wordprocessingml.document",
     "application/vnd.ms-excel",
     "application/vnd.openxmlformats-officedocument.spreadsheetml.sheet",
     "application/vnd.ms-powerpoint",
     "application/vnd.openxmlformats-officedocument.presentationml.presentation",
     "text/plain", "text/csv",
     "image/jpeg", "image/png", "image/gif", "image/svg+xml", "image/webp",
     "application/zip", "application/x-rar-compressed"}

\* A file name is a sequence of characters.
SUSPICIOUS_EXTENSIONS ==
    {<<"e", "x", "e">>, <<"b", "a", "t">>, <<"c", "m", "d">>, <<"s", "h">>,
     <<"j", "s">>, <<"v", "b", "s">>, <<"p", "s", "1">>, <<"j", "a", "r">>,
     <<"m", "s", "i">>, <<"c", "o", "m">>, <<"s", "c", "r">>}

\* An extension taken without lower().
Extension_CaseSensitive(file_name) ==
    IF \E i \in DOMAIN file_name : file_name[i] = "."
    THEN LET last == CHOOSE i \in DOMAIN file_name :
                        /\ file_name[i] = "."
                        /\ \A j \in DOMAIN file_name :
                              file_name[j] = "." => j <= i
         IN SubSeq(file_name, last + 1, Len(file_name))
    ELSE <<>>

\* file_name.split(".")[-1].lower() if "." in file_name else ""
Extension(file_name) ==
    IF \E i \in DOMAIN file_name : file_name[i] = "."
    THEN LET last == CHOOSE i \in DOMAIN file_name :
                        /\ file_name[i] = "."
                        /\ \A j \in DOMAIN file_name :
                              file_name[j] = "." => j <= i
         IN Lower(SubSeq(file_name, last + 1, Len(file_name)))
    ELSE <<>>

\* ValidationResult(is_valid, message); the message defaults to "".
ValidationResult(is_valid, message) ==
    [is_valid |-> is_valid, message |-> message]

\* A validate_file whose size test is >=.
validate_file_SizeInclusive(file_name, file_size, mime_type) ==
    IF ~SizeGreater(MAX_FILE_SIZE, file_size)
    THEN ValidationResult(FALSE, "File size exceeds maximum allowed (5GB)")
    ELSE IF mime_type \notin ALLOWED_MIME_TYPES
    THEN ValidationResult(FALSE, "File type not allowed: " \o mime_type)
    ELSE IF Extension(file_name) \in SUSPICIOUS_EXTENSIONS
    THEN ValidationResult(FALSE, "File extension not allowed: .")
    ELSE ValidationResult(TRUE, "")

\* A validate_file that tests the MIME type before the size.
validate_file_MimeFirst(file_name, file_size, mime_type) ==
    IF mime_type \notin ALLOWED_MIME_TYPES
    THEN ValidationResult(FALSE, "File type not allowed: " \o mime_type)
    ELSE IF SizeGreater(file_size, MAX_FILE_SIZE)
    THEN ValidationResult(FALSE, "File size exceeds maximum allowed (5GB)")
    ELSE IF Extension(file_name) \in SUSPICIOUS_EXTENSIONS
    THEN ValidationResult(FALSE, "File extension not allowed: .")
    ELSE ValidationResult(TRUE, "")

\* validate_file: size, then MIME type, then extension; the message names
\* the check that failed (the extension message ends with the extension).
validate_file(file_name, file_size, mime_type) ==
    IF SizeGreater(file_size, MAX_FILE_SIZE)
    THEN ValidationResult(FALSE, "File size exceeds maximum allowed (5GB)")
    ELSE IF mime_type \notin ALLOWED_MIME_TYPES
    THEN ValidationResult(FALSE, "File type not allowed: " \o mime_type)
    ELSE IF Extension(file_name) \in SUSPICIOUS_EXTENSIONS
    THEN ValidationResult(FALSE, "File extension not allowed: .")
    ELSE ValidationResult(TRUE, "")

\* The bytes of an upload, as far as scan_file can tell: where the string
\* "VIRUS" stands, if anywhere ("head": within the first 100 bytes).
ByteKinds == {"plain", "virus_head", "virus_later"}

\* The except branch of scan_file.
ScanFailed == [is_clean |-> FALSE, threats |-> <<"Scan failed">>,
               message |-> "Could not scan file: "]

\* A scan_file whose except branch lets the file pass.
SecurityService_scan_file_FailOpen(file_bytes, raises) ==
    IF raises THEN [is_clean |-> TRUE, threats |-> <<>>, message |-> ""]
    ELSE IF file_bytes = "virus_head"
    THEN [is_clean |-> FALSE, threats |-> <<"Simulated virus detected">>,
          message |-> "File contains malicious content"]
    ELSE [is_clean |-> TRUE, threats |-> <<>>, message |-> ""]

\* SecurityService.scan_file.  raises: the body of the try block raises.
SecurityService_scan_file(file_bytes, raises) ==
    IF raises THEN ScanFailed
    ELSE IF file_bytes = "virus_head"
    THEN [is_clean |-> FALSE, threats |-> <<"Simulated virus detected">>,
          message |-> "File contains malicious content"]
    ELSE [is_clean |-> TRUE, threats |-> <<>>, message |-> ""]

\* -------------------------------------------------------- MetadataExtractor
\* mime_type.startswith("image/"), among the allowed types.
ImageMimeTypes ==
    {"image/jpeg", "image/png", "image/gif", "image/svg+xml", "image/webp"}

\* mime_type.startswith("application/pdf"), or "document" or "spreadsheet"
\* in mime_type, among the allowed types.
DocumentMimeTypes ==
    {"application/pdf",
     "application/vnd.openxmlformats-officedocument.wordprocessingml.document",
     "application/vnd.openxmlformats-officedocument.spreadsheetml.sheet",
     "application/vnd.openxmlformats-officedocument.presentationml.presentation"}

\* The characters of a MIME type.
MimeChars(mime_type) ==
    CASE mime_type = "application/pdf" ->
           <<"a", "p", "p", "l", "i", "c", "a", "t", "i", "o", "n", "/", "p",
           "d", "f">>
      [] mime_type = "application/msword" ->
           <<"a", "p", "p", "l", "i", "c", "a", "t", "i", "o", "n", "/", "m",
           "s", "w", "o", "r", "d">>
      [] mime_type = "application/vnd.openxmlformats-officedocument.wordprocessingml.document" ->
           <<"a", "p", "p", "l", "i", "c", "a", "t", "i", "o", "n", "/", "v",
           "n", "d", ".", "o", "p", "e", "n", "x", "m", "l", "f", "o", "r",
           "m", "a", "t", "s", "-", "o", "f", "f", "i", "c", "e", "d", "o",
           "c", "u", "m", "e", "n", "t", ".", "w", "o", "r", "d", "p", "r",
           "o", "c", "e", "s", "s", "i", "n", "g", "m", "l", ".", "d", "o",
           "c", "u", "m", "e", "n", "t">>
      [] mime_type = "application/vnd.ms-excel" ->
           <<"a", "p", "p", "l", "i", "c", "a", "t", "i", "o", "n", "/", "v",
           "n", "d", ".", "m", "s", "-", "e", "x", "c", "e", "l">>
      [] mime_type = "application/vnd.openxmlformats-officedocument.spreadsheetml.sheet" ->
           <<"a", "p", "p", "l", "i", "c", "a", "t", "i", "o", "n", "/", "v",
           "n", "d", ".", "o", "p", "e", "n", "x", "m", "l", "f", "o", "r",
           "m", "a", "t", "s", "-", "o", "f", "f", "i", "c", "e", "d", "o",
           "c", "u", "m", "e", "n", "t", ".", "s", "p", "r", "e", "a", "d",
           "s", "h", "e", "e", "t", "m", "l", ".", "s", "h", "e", "e", "t">>
      [] mime_type = "application/vnd.ms-powerpoint" ->
           <<"a", "p", "p", "l", "i", "c", "a", "t", "i", "o", "n", "/", "v",
           "n", "d", ".", "m", "s", "-", "p", "o", "w", "e", "r", "p", "o",
           "i", "n", "t">>
      [] mime_type = "application/vnd.openxmlformats-officedocument.presentationml.presentation" ->
           <<"a", "p", "p", "l", "i", "c", "a", "t", "i", "o", "n", "/", "v",
           "n", "d", ".", "o", "p", "e", "n", "x", "m", "l", "f", "o", "r",
           "m", "a", "t", "s", "-", "o", "f", "f", "i", "c", "e", "d", "o",
           "c", "u", "m", "e", "n", "t", ".", "p", "r", "e", "s", "e", "n",
           "t", "a", "t", "i", "o", "n", "m", "l", ".", "p", "r", "e", "s",
           "e", "n", "t", "a", "t", "i", "o", "n">>
      [] mime_type = "text/plain" ->
           <<"t", "e", "x", "t", "/", "p", "l", "a", "i", "n">>
      [] mime_type = "text/csv" ->
           <<"t", "e", "x", "t", "/", "c", "s", "v">>
      [] mime_type = "image/jpeg" ->
           <<"i", "m", "a", "g", "e", "/", "j", "p", "e", "g">>
      [] mime_type = "image/png" ->
           <<"i", "m", "a", "g", "e", "/", "p", "n", "g">>
      [] mime_type = "image/gif" ->
           <<"i", "m", "a", "g", "e", "/", "g", "i", "f">>
      [] mime_type = "image/svg+xml" ->
           <<"i", "m", "a", "g", "e", "/", "s", "v", "g", "+", "x", "m",
           "l">>
      [] mime_type = "image/webp" ->
           <<"i", "m", "a", "g", "e", "/", "w", "e", "b", "p">>
      [] mime_type = "application/zip" ->
           <<"a", "p", "p", "l", "i", "c", "a", "t", "i", "o", "n", "/", "z",
           "i", "p">>
      [] mime_type = "application/x-rar-compressed" ->
           <<"a", "p", "p", "l", "i", "c", "a", "t", "i", "o", "n", "/", "x",
           "-", "r", "a", "r", "-", "c", "o", "m", "p", "r", "e", "s", "s",
           "e", "d">>
      [] mime_type = "application/x-msdownload" ->
           <<"a", "p", "p", "l", "i", "c", "a", "t", "i", "o", "n", "/", "x",
           "-", "m", "s", "d", "o", "w", "n", "l", "o", "a", "d">>
      [] OTHER -> <<>>

\* A dispatch without the test for application/pdf.
Pipeline_PdfUnsupported(mime_type) ==
    LET m == MimeChars(mime_type)
    IN IF StartsWith(m, <<"i", "m", "a", "g", "e", "/">>) THEN "image"
       ELSE IF \/ Contains(<<"d", "o", "c", "u", "m", "e", "n", "t">>, m)
               \/ Contains(<<"s", "p", "r", "e", "a", "d", "s", "h", "e",
                             "e", "t">>, m)
       THEN "document"
       ELSE "none"

\* The if/elif chain of extract_metadata: which pipeline a MIME type goes to.
Pipeline(mime_type) ==
    LET m == MimeChars(mime_type)
    IN IF StartsWith(m, <<"i", "m", "a", "g", "e", "/">>) THEN "image"
       ELSE IF StartsWith(m, MimeChars("application/pdf")) THEN "document"
       ELSE IF \/ Contains(<<"d", "o", "c", "u", "m", "e", "n", "t">>, m)
               \/ Contains(<<"s", "p", "r", "e", "a", "d", "s", "h", "e", "e",
                        "t">>, m)
       THEN "document"
       ELSE "none"

\* The backend calls extract_metadata makes for a MIME type, in order.
BackendCalls(mime_type) ==
    IF Pipeline(mime_type) = "image" THEN {"detect_labels", "detect_text"}
    ELSE IF Pipeline(mime_type) = "document" THEN {"analyze_document"}
    ELSE {}

\* What a backend call raises: nothing, a ClientError, or another exception.
NoErr == [call |-> "none", kind |-> "none"]
BackendErrors ==
    {NoErr} \cup [call : {"detect_labels", "detect_text", "analyze_document"},
                  kind : {"ClientError", "other"}]

\* A FileMetadata value with content_type alone; extracted: the text,
\* entities and categories are filled from the backend's answer.  image_data,
\* document_data: the payload is there; document_type: the type in
\* document_data and categories.  raised: no value, the call raised instead.
FileMetadata(content_type, extracted) ==
    [content_type |-> content_type, extracted |-> extracted,
     image_data |-> FALSE, document_data |-> FALSE, document_type |-> "",
     raised |-> FALSE]
NoMeta == FileMetadata("", FALSE)
Raised == [NoMeta EXCEPT !.raised = TRUE]

\* What Textract found in a document: the text of its lines and the keys of
\* its forms.
NoAnswer == [text |-> <<>>, keys |-> {}]

\* A _determine_document_type that tests for a receipt first.
determine_document_type_ReceiptFirst(text, key_value_pairs) ==
    LET text_lower == Lower(text)
        keys == {Lower(key) : key \in key_value_pairs}
    IN IF \/ Contains(<<"r", "e", "c", "e", "i", "p", "t">>, text_lower)
          \/ \E key \in keys :
                /\ Contains(<<"t", "o", "t", "a", "l">>, key)
                /\ Contains(<<"a", "m", "o", "u", "n", "t">>, key)
       THEN "receipt"
       ELSE IF \/ Contains(<<"i", "n", "v", "o", "i", "c", "e">>, text_lower)
               \/ \E key \in keys :
                     Contains(<<"i", "n", "v", "o", "i", "c", "e">>, key)
       THEN "invoice"
       ELSE IF \/ Contains(<<"c", "o", "n", "t", "r", "a", "c", "t">>,
                           text_lower)
               \/ Contains(<<"a", "g", "r", "e", "e", "m", "e", "n", "t">>,
                           text_lower)
       THEN "contract"
       ELSE IF \/ Contains(<<"r", "e", "s", "u", "m", "e">>, text_lower)
               \/ Contains(<<"c", "v">>, text_lower)
               \/ Contains(<<"c", "u", "r", "r", "i", "c", "u", "l", "u", "m",
                          " ", "v", "i", "t", "a", "e">>,
                           text_lower)
       THEN "resume"
       ELSE "document"

\* MetadataExtractor._determine_document_type; key_value_pairs: the keys.
determine_document_type(text, key_value_pairs) ==
    LET text_lower == Lower(text)
        keys == {Lower(key) : key \in key_value_pairs}
    IN IF \/ Contains(<<"i", "n", "v", "o", "i", "c", "e">>, text_lower)
          \/ \E key \in keys :
                Contains(<<"i", "n", "v", "o", "i", "c", "e">>, key)
       THEN "invoice"
       ELSE IF \/ Contains(<<"r", "e", "c", "e", "i", "p", "t">>, text_lower)
               \/ \E key \in keys :
                     /\ Contains(<<"t", "o", "t", "a", "l">>, key)
                     /\ Contains(<<"a", "m", "o", "u", "n", "t">>, key)
       THEN "receipt"
       ELSE IF \/ Contains(<<"c", "o", "n", "t", "r", "a", "c", "t">>,
                           text_lower)
               \/ Contains(<<"a", "g", "r", "e", "e", "m", "e", "n", "t">>,
                           text_lower)
       THEN "contract"
       ELSE IF \/ Contains(<<"r", "e", "s", "u", "m", "e">>, text_lower)
               \/ Contains(<<"c", "v">>, text_lower)
               \/ Contains(<<"c", "u", "r", "r", "i", "c", "u", "l", "u", "m",
                          " ", "v", "i", "t", "a", "e">>,
                           text_lower)
       THEN "resume"
       ELSE "document"

\* _extract_image_metadata: detect_labels, detect_text; a ClientError gives
\* the bare "image" value, any other exception leaves the function.
extract_image_metadata(err) ==
    IF err.call \in {"detect_labels", "detect_text"}
    THEN IF err.kind = "ClientError" THEN FileMetadata("image", FALSE)
         ELSE Raised
    ELSE [FileMetadata("image", TRUE) EXCEPT !.image_data = TRUE]

\* _extract_document_metadata: analyze_document; a ClientError gives the bare
\* "document" value, any other exception leaves the function.
extract_document_metadata(answer, err) ==
    IF err.call = "analyze_document"
    THEN IF err.kind = "ClientError" THEN FileMetadata("document", FALSE)
         ELSE Raised
    ELSE [FileMetadata("document", TRUE) EXCEPT
            !.document_data = TRUE,
            !.document_type = determine_document_type(answer.text,
                                                      answer.keys)]

\* An extract_metadata without its outer except: an exception that is not a
\* ClientError leaves the function.
extract_metadata_Propagates(mime_type, answer, err) ==
    IF Pipeline(mime_type) = "image" THEN extract_image_metadata(err)
    ELSE IF Pipeline(mime_type) = "document"
    THEN extract_document_metadata(answer, err)
    ELSE FileMetadata(mime_type, FALSE)

\* MetadataExtractor.extract_metadata.  answer: what Textract finds; err:
\* what a backend call raises.  An exception the pipeline lets out reaches
\* the except of extract_metadata, which returns the bare value of the MIME
\* type.
extract_metadata(mime_type, answer, err) ==
    LET m == IF Pipeline(mime_type) = "image"
             THEN extract_image_metadata(err)
             ELSE IF Pipeline(mime_type) = "document"
             THEN extract_document_metadata(answer, err)
             ELSE FileMetadata(mime_type, FALSE)
    IN IF m.raised THEN FileMetadata(mime_type, FALSE) ELSE m

\* ------------------------------------------------------------- POST /files
FileNames ==
    {<<"a">>, <<"a", ".", "p", "d", "f">>, <<"a", ".", "E", "x", "e">>,
     <<"a", ".", "b", ".", "J", "s">>}
Sizes == {Size(0, 0), MAX_FILE_SIZE, Size(5, 1)}
MimeTypes == {"application/pdf", "image/png", "text/plain",
              "application/x-msdownload"}
Parts == {"missing", "empty", "file"}

\* A request.  steps: the steps of upload_file it has entered; raised: the
\* body of scan_file raised; failed: the step whose call raised into the
\* except of upload_file, if one did; xerr: what a backend raised during
\* the extraction; meta: the value extract_metadata returned; validation:
\* the value validate_file returned; tags: the tags of the form, split at
\* "," and stripped.
NoScan == [is_clean |-> TRUE, threats |-> <<>>, message |-> "not scanned"]
NoValidation == ValidationResult(FALSE, "not validated")
NoReq == [pc |-> "idle", id |-> 0, part |-> "missing", name |-> <<>>,
          tags |-> <<>>,
          size |-> Size(0, 0), length |-> Size(0, 0), mime |-> "",
          answer |-> NoAnswer,
          bytes |-> "plain", steps |-> <<>>,
          scan |-> NoScan, raised |-> FALSE, failed |-> "none",
          xerr |-> NoErr, meta |-> NoMeta, validation |-> NoValidation,
          resp |-> "none", error |-> ""]

\* A request to GET, DELETE or PUT /files/<id>...; path: the path of the
\* record get_metadata returned; tags: the tags of a PUT; deleted: what
\* delete_file returned; absent: delete_file was called for a key that had no
\* object; fault: the call of delete_file was made to fail.
NoOp == [kind |-> "none", pc |-> "idle", id |-> 0, path |-> 0, tags |-> <<>>,
         deleted |-> FALSE, absent |-> FALSE, fault |-> FALSE,
         resp |-> "none"]

\* A PUT /files/<id>/tags request; tags: the tags of its body.
NoTags == [pc |-> "idle", id |-> 0, tags |-> <<>>, resp |-> "none"]

\* A GET /search request: the files the scan returned, the lists the stages
\* of _filter_and_rank_results leave, and the sorted (file, score) pairs.
NoFilters == [categories |-> <<>>, uploaded_after |-> 0 - 1,
              uploaded_before |-> 0 - 1, min_size |-> 0 - 1,
              max_size |-> 0 - 1]
NoSearch == [pc |-> "idle", resp |-> "none", stored |-> <<>>,
             files |-> <<>>, query |-> <<>>,
             filters |-> NoFilters, filtered_files |-> <<>>,
             size_filtered_files |-> <<>>, result_files |-> <<>>,
             scored_files |-> <<>>]

InitApi ==
    /\ apiStore = {}
    /\ apiTable = {}
    /\ requests = 0
    /\ req = NoReq
    /\ op = NoOp
    /\ tg = NoTags
    /\ srch = NoSearch

\* The request ends with this status code and error message.
Respond(r, code, error) ==
    [r EXCEPT !.pc = "done", !.resp = code, !.error = error]

\* A request arrives.  part: the "file" part is missing, has an empty file
\* name, or is a file with a name, the content length the part declares
\* (size; 0 when the part declares none), the length of the body that
\* file.read() returns (length), a content type and bytes.
ApiReceive(part, name, size, length, mime, bytes, tags) ==
    /\ req.pc \in {"idle", "done"}
    /\ requests < MaxRequests
    /\ requests' = requests + 1
    /\ req' = IF part = "file"
              THEN [NoReq EXCEPT !.pc = "validate", !.id = requests + 1,
                                 !.part = part, !.name = name, !.size = size,
                                 !.length = length,
                                 !.mime = mime, !.bytes = bytes,
                                 !.tags = tags]
              ELSE [NoReq EXCEPT !.pc = "validate", !.id = requests + 1,
                                 !.part = part]
    /\ UNCHANGED <<apiStore, apiTable>>
    /\ UNCHANGED <<lambdaVars, mgmtVars>>

\* A request whose part declares the length of its body.
ApiStart(part, name, size, mime, bytes, tags) ==
    ApiReceive(part, name, size, size, mime, bytes, tags)

\* The checks of the file part, then validate_file.
ApiValidate ==
    /\ req.pc = "validate"
    /\ req' = IF req.part = "missing"
              THEN Respond(req, "400", "No file uploaded")
              ELSE IF req.part = "empty"
              THEN Respond(req, "400", "No file selected")
              ELSE LET v == validate_file(req.name, req.size, req.mime)
                       r == [req EXCEPT !.steps = Append(@, "validate"),
                                        !.validation = v]
                   IN IF ~v.is_valid THEN Respond(r, "400", v.message)
                      ELSE [r EXCEPT !.pc = "scan"]
    /\ UNCHANGED <<apiStore, apiTable, requests>>
    /\ UNCHANGED <<lambdaVars, mgmtVars>>

\* if not scan_result.is_clean: return 400
RejectedByScan(scan_result) == ~scan_result.is_clean

\* An upload_file that writes the object before it looks at the scan result.
ApiScan_StoresFirst(readOk, raises) ==
    /\ req.pc = "scan"
    /\ LET res == SecurityService_scan_file(req.bytes, raises)
           r == [req EXCEPT !.steps = Append(@, "scan"), !.scan = res,
                            !.raised = raises]
       IN req' = IF ~readOk
                 THEN Respond([req EXCEPT !.failed = "read"], "500", "read")
                 ELSE IF RejectedByScan(res)
                 THEN Respond(r, "400", "File contains malicious content: "
                                          \o res.message)
                 ELSE [r EXCEPT !.pc = "store"]
    /\ apiStore' = IF readOk
                   THEN apiStore \cup {[key |-> req.id, bytes |-> req.bytes]}
                   ELSE apiStore
    /\ UNCHANGED <<apiTable, requests>>
    /\ UNCHANGED <<lambdaVars, mgmtVars>>

\* file.read(), which may raise (the route answers 500), then scan_file and
\* the test of its result.
ApiScan(readOk, raises) ==
    /\ req.pc = "scan"
    /\ LET res == SecurityService_scan_file(req.bytes, raises)
           r == [req EXCEPT !.steps = Append(@, "scan"), !.scan = res,
                            !.raised = raises]
       IN req' = IF ~readOk
                 THEN Respond([req EXCEPT !.failed = "read"], "500", "read")
                 ELSE IF RejectedByScan(res)
                 THEN Respond(r, "400", "File contains malicious content: "
                                          \o res.message)
                 ELSE [r EXCEPT !.pc = "store"]
    /\ UNCHANGED <<apiStore, apiTable, requests>>
    /\ UNCHANGED <<lambdaVars, mgmtVars>>

\* An upload_file that goes on to the extraction after the store raised.
ApiStore_GoesOn(uploadOk, headOk) ==
    /\ req.pc = "store"
    /\ apiStore' = IF uploadOk
                   THEN apiStore \cup {[key |-> req.id, bytes |-> req.bytes]}
                   ELSE apiStore
    /\ LET r == [req EXCEPT !.steps = Append(@, "store")]
       IN req' = IF uploadOk /\ headOk THEN [r EXCEPT !.pc = "extract"]
                 ELSE [r EXCEPT !.pc = "extract", !.failed = "store"]
    /\ UNCHANGED <<apiTable, requests>>
    /\ UNCHANGED <<lambdaVars, mgmtVars>>

\* StorageService.upload_file: upload_fileobj to a key under a new uuid4,
\* then head_object for the version id.  Either may raise; the route answers
\* 500.
ApiStore(uploadOk, headOk) ==
    /\ req.pc = "store"
    /\ apiStore' = IF uploadOk
                   THEN apiStore \cup {[key |-> req.id, bytes |-> req.bytes]}
                   ELSE apiStore
    /\ LET r == [req EXCEPT !.steps = Append(@, "store")]
       IN req' = IF uploadOk /\ headOk THEN [r EXCEPT !.pc = "extract"]
                 ELSE Respond([r EXCEPT !.failed = "store"], "500",
                              "storage")
    /\ UNCHANGED <<apiTable, requests>>
    /\ UNCHANGED <<lambdaVars, mgmtVars>>

\* extract_metadata(file_bytes, content_type, file_name).  err: what a
\* backend call raises, if the call is made for this MIME type.
ApiExtractOf(answer, err) ==
    /\ req.pc = "extract"
    /\ LET e == IF err.call \in BackendCalls(req.mime) THEN err ELSE NoErr
           m == extract_metadata(req.mime, answer, e)
           r == [req EXCEPT !.steps = Append(@, "extract"), !.xerr = e,
                            !.answer = IF Pipeline(req.mime) = "document"
                                       THEN answer ELSE NoAnswer]
       IN req' = IF m.raised
                 THEN Respond([r EXCEPT !.failed = "extract"], "500",
                              "extract")
                 ELSE [r EXCEPT !.pc = "save", !.meta = m]
    /\ UNCHANGED <<apiStore, apiTable, requests>>
    /\ UNCHANGED <<lambdaVars, mgmtVars>>

\* The extraction of a file in which Textract, if asked, finds no lines and
\* no forms.
ApiExtract(err) == ApiExtractOf(NoAnswer, err)

\* An upload_file that answers 201 although save_metadata raised.
ApiSave_Swallows(ok) ==
    /\ req.pc = "save"
    /\ apiTable' = IF ok
                   THEN apiTable \cup {[id |-> req.id, saved |-> TRUE,
                                        path |-> req.id, name |-> req.name,
                                        mime |-> req.mime,
                                        metadata |-> req.meta,
                                        tags |-> req.tags,
                                        updated_at |-> FALSE]}
                   ELSE apiTable
    /\ req' = [req EXCEPT !.steps = Append(@, "save"), !.pc = "presign"]
    /\ UNCHANGED <<apiStore, requests>>
    /\ UNCHANGED <<lambdaVars, mgmtVars>>

\* FileModel(...) and save_metadata: put_item under a new uuid4.
ApiSave(ok) ==
    /\ req.pc = "save"
    /\ apiTable' = IF ok
                   THEN apiTable \cup {[id |-> req.id, saved |-> TRUE,
                                        path |-> req.id, name |-> req.name,
                                        mime |-> req.mime,
                                        metadata |-> req.meta,
                                        tags |-> req.tags,
                                        updated_at |-> FALSE]}
                   ELSE apiTable
    /\ LET r == [req EXCEPT !.steps = Append(@, "save")]
       IN req' = IF ok THEN [r EXCEPT !.pc = "presign"]
                 ELSE Respond([r EXCEPT !.failed = "save"], "500",
                              "metadata")
    /\ UNCHANGED <<apiStore, requests>>
    /\ UNCHANGED <<lambdaVars, mgmtVars>>

\* generate_presigned_url and the 201 answer.
ApiPresign(ok) ==
    /\ req.pc = "presign"
    /\ req' = IF ok THEN Respond(req, "201", "")
              ELSE Respond([req EXCEPT !.failed = "presign"], "500",
                           "presign")
    /\ UNCHANGED <<apiStore, apiTable, requests>>
    /\ UNCHANGED <<lambdaVars, mgmtVars>>

NextApi ==
    \/ \E part \in Parts \ {"file"} :
          ApiStart(part, <<>>, Size(0, 0), "", "plain", <<>>)
    \/ \E name \in FileNames, size \in Sizes, mime \in MimeTypes,
          bytes \in ByteKinds :
            ApiStart("file", name, size, mime, bytes, <<>>)
    \/ ApiValidate
    \/ \E readOk, raises \in BOOLEAN : ApiScan(readOk, raises)
    \/ \E uploadOk, headOk \in BOOLEAN : ApiStore(uploadOk, headOk)
    \/ \E err \in BackendErrors : ApiExtract(err)
    \/ \E ok \in BOOLEAN : ApiSave(ok)
    \/ \E ok \in BOOLEAN : ApiPresign(ok)

\* ------------------------------------------- GET / DELETE /files/<file_id>
\* MetadataService.get_metadata: the item with this id, or none; an item
\* without the attributes save_metadata writes fails FileModel.parse_obj,
\* whose ValidationError leaves get_metadata.
NoItem == [id |-> 0]
BadItem == [id |-> 0, raised |-> TRUE]
get_metadata(file_id) ==
    IF \E r \in apiTable : r.id = file_id
    THEN LET item == CHOOSE r \in apiTable : r.id = file_id
         IN IF item.saved THEN item ELSE BadItem
    ELSE NoItem

OpDone(o, code) == [o EXCEPT !.pc = "done", !.resp = code]

\* GET /files/<file_id>.  ok: get_item does not raise.
GetFile(file_id, ok) ==
    /\ op.pc \in {"idle", "done"}
    /\ LET o == [NoOp EXCEPT !.kind = "get", !.id = file_id]
       IN op' = IF ~ok \/ get_metadata(file_id) = BadItem
                THEN OpDone(o, "500")
                ELSE IF get_metadata(file_id) = NoItem THEN OpDone(o, "404")
                ELSE OpDone([o EXCEPT !.path = get_metadata(file_id).path],
                            "200")
    /\ UNCHANGED <<lambdaVars, apiStore, apiTable, requests, req, tg, srch,
                   versioning>>

\* DELETE /files/<file_id>, up to get_metadata.
DeleteGet(file_id, ok) ==
    /\ op.pc \in {"idle", "done"}
    /\ LET o == [NoOp EXCEPT !.kind = "delete", !.id = file_id]
       IN op' = IF ~ok \/ get_metadata(file_id) = BadItem
                THEN OpDone(o, "500")
                ELSE IF get_metadata(file_id) = NoItem THEN OpDone(o, "404")
                ELSE [o EXCEPT !.pc = "s3",
                               !.path = get_metadata(file_id).path]
    /\ UNCHANGED <<lambdaVars, apiStore, apiTable, requests, req, tg, srch,
                   versioning>>

\* A delete_object that answers NoSuchKey where there is no object.
delete_file_AbsentRaises(object_key, ok) ==
    IF ok /\ \E o \in apiStore : o.key = object_key
    THEN [raised |-> FALSE, deleted |-> versioning,
          store |-> {o \in apiStore : o.key # object_key}]
    ELSE [raised |-> TRUE, deleted |-> FALSE, store |-> apiStore]

\* StorageService.delete_file(object_key): delete_object, which removes the
\* current object of the key if there is one and succeeds if there is none;
\* the DeleteMarker of the response is returned, which a bucket that keeps
\* versions sets and another bucket leaves out.  A ClientError is raised on.
\* ok: the call does not fail.  store: the objects a GET finds.
delete_file(object_key, ok) ==
    IF ok
    THEN [raised |-> FALSE, deleted |-> versioning,
          store |-> {o \in apiStore : o.key # object_key}]
    ELSE [raised |-> TRUE, deleted |-> FALSE, store |-> apiStore]

\* A route that goes on to the record when delete_file has raised.
DeleteObject_Swallows(ok) ==
    /\ op.kind = "delete" /\ op.pc = "s3"
    /\ LET d == delete_file(op.path, ok)
           o == [op EXCEPT !.fault = ~ok,
                           !.absent = \A b \in apiStore : b.key # op.path]
       IN /\ apiStore' = d.store
          /\ op' = [o EXCEPT !.pc = "ddb", !.deleted = d.deleted]
    /\ UNCHANGED <<lambdaVars, apiTable, requests, req, tg, srch, versioning>>

\* deleted = storage_service.delete_file(file_model.path) of the route; if it
\* raises the route answers 500.
DeleteObject(ok) ==
    /\ op.kind = "delete" /\ op.pc = "s3"
    /\ LET d == delete_file(op.path, ok)
           o == [op EXCEPT !.fault = ~ok,
                           !.absent = \A b \in apiStore : b.key # op.path]
       IN /\ apiStore' = d.store
          /\ op' = IF d.raised THEN OpDone(o, "500")
                   ELSE [o EXCEPT !.pc = "ddb", !.deleted = d.deleted]
    /\ UNCHANGED <<lambdaVars, apiTable, requests, req, tg, srch, versioning>>

\* MetadataService.delete_metadata(file_id): delete_item; then the answer
\* {"deleted": deleted}.
DeleteRecord(ok) ==
    /\ op.kind = "delete" /\ op.pc = "ddb"
    /\ IF ok
       THEN /\ apiTable' = {r \in apiTable : r.id # op.id}
            /\ op' = OpDone(op, "200")
       ELSE /\ op' = OpDone(op, "500")
            /\ UNCHANGED apiTable
    /\ UNCHANGED <<lambdaVars, apiStore, requests, req, tg, srch, versioning>>

\* ----------------------------- PUT /files/<file_id>/tags, update_metadata
\* table.update_item(Key={"id": file_id}, UpdateExpression="SET <attr> =
\* :v, updated_at = :now"), which has no condition: the two attributes are
\* set on the item of this id, and where there is no item one is made of the
\* key and the two attributes.
BareItem(file_id) ==
    [id |-> file_id, saved |-> FALSE, path |-> 0, name |-> <<>>,
     mime |-> "", metadata |-> NoMeta, tags |-> <<>>, updated_at |-> FALSE]

\* An update_item that writes the item anew, as put_item does.
update_item_Replaces(t, file_id, attr, value) ==
    {r \in t : r.id # file_id}
       \cup {[BareItem(file_id) EXCEPT ![attr] = value, !.updated_at = TRUE]}

update_item(t, file_id, attr, value) ==
    LET old == IF \E r \in t : r.id = file_id
               THEN CHOOSE r \in t : r.id = file_id
               ELSE BareItem(file_id)
    IN {r \in t : r.id # file_id}
          \cup {[old EXCEPT ![attr] = value, !.updated_at = TRUE]}

\* The ids a caller can name: 0 for any string that is no id of an upload,
\* and the uuid4 of every upload that has come to its record or its answer.
CallerIds == 0..MaxRequests
NamedIds ==
    {0} \cup {i \in 1..requests :
                i = req.id => req.pc \in {"presign", "done"}}

\* The values update_metadata is called with.
DerivedMetadata == {FileMetadata("document", TRUE)}

\* MetadataService.update_metadata(file_id, metadata), which no route calls.
\* ok: update_item does not raise.
UpdateMetadata(file_id, metadata, ok) ==
    /\ file_id \in NamedIds
    /\ apiTable' = IF ok
                   THEN update_item(apiTable, file_id, "metadata", metadata)
                   ELSE apiTable
    /\ UNCHANGED <<lambdaVars, apiStore, requests, req, op, tg, srch,
                   versioning>>

\* PUT /files/<file_id>/tags up to the reading of the body.  ok: get_item
\* does not raise; hasTags: the body is a JSON object with "tags".
TagsGet(file_id, hasTags, tags, ok) ==
    /\ tg.pc \in {"idle", "done"}
    /\ file_id \in NamedIds
    /\ LET t == [NoTags EXCEPT !.id = file_id]
       IN tg' = IF ~ok \/ get_metadata(file_id) = BadItem
                THEN OpDone(t, "500")
                ELSE IF get_metadata(file_id) = NoItem THEN OpDone(t, "404")
                ELSE IF ~hasTags THEN OpDone(t, "400")
                ELSE [t EXCEPT !.pc = "update", !.tags = tags]
    /\ UNCHANGED <<lambdaVars, apiStore, apiTable, requests, req, op, srch,
                   versioning>>

\* metadata_service.update_tags(file_id, tags), then {"updated": True}.
TagsUpdate(ok) ==
    /\ tg.pc = "update"
    /\ IF ok
       THEN /\ apiTable' = update_item(apiTable, tg.id, "tags", tg.tags)
            /\ tg' = OpDone(tg, "200")
       ELSE /\ tg' = OpDone(tg, "500")
            /\ UNCHANGED apiTable
    /\ UNCHANGED <<lambdaVars, apiStore, requests, req, op, srch,
                   versioning>>

\* ------------------------------------------------------------ GET /search
\* None of Python, for an optional date or size of SearchFilters.
None == 0 - 1

\* len(re.findall(re.escape(pat), str)): the matches are taken from the left
\* and do not overlap; the empty pattern matches at every position.
RECURSIVE FindAllFrom(_, _, _)
FindAllFrom(pat, str, i) ==
    IF i + Len(pat) - 1 > Len(str) THEN 0
    ELSE IF SubSeq(str, i, i + Len(pat) - 1) = pat
    THEN 1 + FindAllFrom(pat, str, i + (IF pat = <<>> THEN 1 ELSE Len(pat)))
    ELSE FindAllFrom(pat, str, i + 1)
FindAll(pat, str) == FindAllFrom(pat, str, 1)

\* re.split(r'\s+', str): the pieces between the runs of whitespace, the
\* empty piece before a leading run and after a trailing run included.
RECURSIVE ReSplitFrom(_, _, _)
ReSplitFrom(str, i, cur) ==
    IF i > Len(str) THEN <<cur>>
    ELSE IF str[i] = " "
    THEN IF i > 1 /\ str[i - 1] = " " THEN ReSplitFrom(str, i + 1, cur)
         ELSE <<cur>> \o ReSplitFrom(str, i + 1, <<>>)
    ELSE ReSplitFrom(str, i + 1, Append(cur, str[i]))
ReSplit(str) == ReSplitFrom(str, 1, <<>>)

\* The sum of the first n values of f.
RECURSIVE SumTo(_, _)
SumTo(f, n) == IF n = 0 THEN 0 ELSE f[n] + SumTo(f, n - 1)

\* The points of one name, tag, category or entity text: whole if it holds
\* the query, and each for every term it holds.
FieldScore(value, query_lower, query_terms, whole, each) ==
    LET value_lower == Lower(value)
    IN (IF Contains(query_lower, value_lower) THEN whole ELSE 0)
       + SumTo([i \in DOMAIN query_terms |->
                  IF Contains(query_terms[i], value_lower) THEN each ELSE 0],
               Len(query_terms))

\* The points of the extracted text: 2.0 for each match of the query and 0.5
\* for each match of each term.
TextScore(text, query_lower, query_terms) ==
    IF text = <<>> THEN 0
    ELSE FindAll(query_lower, Lower(text)) * 4
         + SumTo([i \in DOMAIN query_terms |->
                    FindAll(query_terms[i], Lower(text))],
                 Len(query_terms))

\* SearchService._calculate_relevance_score, in half points: 2 is 1.0.
calculate_relevance_score(file, query) ==
    IF query = <<>> THEN 2
    ELSE LET query_lower == Lower(query)
             query_terms == ReSplit(query_lower)
         IN FieldScore(file.name, query_lower, query_terms, 20, 10)
            + SumTo([i \in DOMAIN file.tags |->
                       FieldScore(file.tags[i], query_lower, query_terms,
                                  6, 3)], Len(file.tags))
            + SumTo([i \in DOMAIN file.categories |->
                       FieldScore(file.categories[i], query_lower,
                                  query_terms, 6, 3)], Len(file.categories))
            + TextScore(file.extracted_text, query_lower, query_terms)
            + SumTo([i \in DOMAIN file.entities |->
                       FieldScore(file.entities[i], query_lower, query_terms,
                                  4, 2)], Len(file.entities))

\* The date stage: uploaded_at is an instant, as are the two dates.
DateFilter(files, filters) ==
    SelectSeq(files, LAMBDA file :
        /\ filters.uploaded_after # None
              => file.uploaded_at >= filters.uploaded_after
        /\ filters.uploaded_before # None
              => file.uploaded_at <= filters.uploaded_before)

\* A size stage that leaves out the files of the very size asked for.
SizeFilter_Exclusive(files, filters) ==
    SelectSeq(files, LAMBDA file :
        /\ filters.min_size # None => file.size > filters.min_size
        /\ filters.max_size # None => file.size < filters.max_size)

\* The size stage.
SizeFilter(files, filters) ==
    SelectSeq(files, LAMBDA file :
        /\ filters.min_size # None => file.size >= filters.min_size
        /\ filters.max_size # None => file.size <= filters.max_size)

\* The category stage: passed over when no category is asked for.
CategoryFilter(files, filters) ==
    IF filters.categories = <<>> THEN files
    ELSE SelectSeq(files, LAMBDA file :
            \E i \in DOMAIN filters.categories :
               \E j \in DOMAIN file.categories :
                  Lower(filters.categories[i]) = Lower(file.categories[j]))

\* An insertion that puts a pair before the pairs of its own score.
InsertByScore_BeforeEqual(sorted, pair) ==
    LET k == Cardinality({i \in DOMAIN sorted : sorted[i].score > pair.score})
    IN SubSeq(sorted, 1, k) \o <<pair>> \o SubSeq(sorted, k + 1, Len(sorted))

\* One step of the stable list.sort(key, reverse=True): the pair goes behind
\* every pair of a higher or an equal score.
InsertByScore(sorted, pair) ==
    LET k == Cardinality({i \in DOMAIN sorted : sorted[i].score >= pair.score})
    IN SubSeq(sorted, 1, k) \o <<pair>> \o SubSeq(sorted, k + 1, Len(sorted))

\* scored_files.sort(key=lambda x: x[1], reverse=True), of the first n pairs.
RECURSIVE SortByScore(_, _)
SortByScore(scored_files, n) ==
    IF n = 0 THEN <<>>
    ELSE InsertByScore(SortByScore(scored_files, n - 1), scored_files[n])

\* The (file, score) pairs of the files, in their order.
ScoredFiles(files, query) ==
    [i \in DOMAIN files |->
       [file |-> files[i],
        score |-> calculate_relevance_score(files[i], query)]]

\* The records a scan can return: id, name, uploaded_at, size, tags, and of the
\* metadata the categories, the extracted text and the entity texts.
FileModel(id, name, uploaded_at, size, tags, categories, text, entities) ==
    [id |-> id, name |-> name, uploaded_at |-> uploaded_at, size |-> size,
     tags |-> tags, categories |-> categories, extracted_text |-> text,
     entities |-> entities]
SearchRecords ==
    {FileModel(1, <<"a">>, 1, 0, <<>>, <<>>, <<>>, <<>>),
     FileModel(2, <<"A", " ", "d">>, 2, 1, <<<<"a">>>>, <<<<"D">>>>,
               <<"a", "a", "a">>, <<<<"a", " ", "d">>>>),
     FileModel(3, <<"p">>, 3, 2, <<>>, <<<<"d">>>>, <<>>, <<>>),
     FileModel(4, <<"p", "a">>, 2, 1, <<<<"d">>, <<"a">>>>, <<<<"p">>>>,
               <<"a", " ", "a">>, <<>>),
     FileModel(5, <<"A">>, 1, 0, <<>>, <<>>, <<>>, <<>>)}

\* The lists of at most n records, no record twice.
RECURSIVE ListsUpTo(_)
ListsUpTo(n) ==
    IF n = 0 THEN {<<>>}
    ELSE ListsUpTo(n - 1) \cup
         {Append(l, r) : l \in {m \in ListsUpTo(n - 1) : Len(m) = n - 1},
                         r \in SearchRecords}
CandidateLists ==
    {l \in ListsUpTo(MaxCandidates) :
        \A i, j \in DOMAIN l : i # j => l[i].id # l[j].id}

Queries == {<<>>, <<"a">>, <<"A">>, <<"a", " ", "d">>, <<" ", "a">>,
            <<"a", "a">>}
SearchFilters ==
    [categories : {<<>>, <<<<"D">>>>, <<<<"x">>, <<"P">>>>},
     uploaded_after : {None, 2}, uploaded_before : {None, 2},
     min_size : {None, 1}, max_size : {None, 1}]

\* GET /search up to the scan of MetadataService.search_files, which returns
\* files.  ok: the scan does not raise.  One request is followed: a search
\* writes nothing that another search reads.
SearchScan(files, query, filters, ok) ==
    /\ srch.pc = "idle"
    /\ srch' = IF ok
               THEN [NoSearch EXCEPT !.pc = "rank", !.files = files,
                                     !.query = query, !.filters = filters]
               ELSE [NoSearch EXCEPT !.pc = "done", !.resp = "500"]
    /\ UNCHANGED <<lambdaVars, apiStore, apiTable, requests, req, op, tg,
                   versioning>>

\* json.dumps of a string, of a list of strings and of the entities, for
\* characters that need no escape.  An entity is written with a type and a
\* confidence (those of a URL here).
JsonString(str) == <<"\"">> \o str \o <<"\"">>

RECURSIVE JsonList(_, _)
JsonList(l, n) ==
    IF n = 0 THEN <<>>
    ELSE JsonList(l, n - 1) \o (IF n = 1 THEN <<>> ELSE <<",", " ">>)
           \o l[n]

JsonEntity(text) ==
    <<"{", "\"", "t", "e", "x", "t", "\"", ":", " ">>
      \o JsonString(text) \o
    <<",", " ", "\"", "t", "y", "p", "e", "\"", ":", " ", "\"", "U", "R",
    "L", "\"", ",", " ", "\"", "c", "o", "n", "f", "i", "d", "e", "n", "c",
    "e", "\"", ":", " ", "0", ".", "9", "}">>

\* json.dumps(item["metadata"]) of save_metadata: the dict of FileMetadata in
\* the order of its fields.  A record of this section has the content type of
\* a document, no text where its text is empty and no payload.
json_dumps(file) ==
    <<"{", "\"", "c", "o", "n", "t", "e", "n", "t", "_", "t", "y", "p", "e",
    "\"", ":", " ", "\"", "d", "o", "c", "u", "m", "e", "n", "t", "\"", ",",
    " ", "\"", "e", "x", "t", "r", "a", "c", "t", "e", "d", "_", "t", "e",
    "x", "t", "\"", ":", " ">>
      \o (IF file.extracted_text = <<>> THEN <<"n", "u", "l", "l">>
          ELSE JsonString(file.extracted_text))
      \o <<",", " ", "\"", "e", "n", "t", "i", "t", "i", "e", "s", "\"", ":",
         " ", "[">>
      \o JsonList([i \in DOMAIN file.entities |->
                      JsonEntity(file.entities[i])], Len(file.entities))
      \o <<"]", ",", " ", "\"", "c", "a", "t", "e", "g", "o", "r", "i", "e",
         "s", "\"", ":", " ", "[">>
      \o JsonList([i \in DOMAIN file.categories |->
                      JsonString(file.categories[i])], Len(file.categories))
      \o <<"]", ",", " ", "\"", "i", "m", "a", "g", "e", "_", "d", "a", "t",
         "a", "\"", ":", " ", "n", "u", "l", "l", ",", " ", "\"", "d", "o",
         "c", "u", "m", "e", "n", "t", "_", "d", "a", "t", "a", "\"", ":",
         " ", "n", "u", "l", "l", ",", " ", "\"", "c", "u", "s", "t", "o",
         "m", "_", "a", "t", "t", "r", "i", "b", "u", "t", "e", "s", "\"",
         ":", " ", "{", "}", "}">>

\* The FilterExpression of MetadataService.search_files: the search term is
\* in the name or in the serialized metadata, as it is written, and one of
\* the tags asked for is among the item's tags.
FilterExpression(item, search_term, tags) ==
    /\ search_term # <<>> =>
          \/ Contains(search_term, item.name)
          \/ Contains(search_term, json_dumps(item))
    /\ tags # <<>> =>
          \E i \in DOMAIN tags, j \in DOMAIN item.tags : tags[i] = item.tags[j]

\* MetadataService.search_files(search_term, tags) on a table that holds
\* items: the items the scan returns, in the order of the table.
MetadataService_search_files(items, search_term, tags) ==
    LET F(item) == FilterExpression(item, search_term, tags)
    IN SelectSeq(items, F)

\* The tags a search asks for.
PrefilterFilters ==
    [categories : {<<>>}, uploaded_after : {None}, uploaded_before : {None},
     min_size : {None}, max_size : {None, 1},
     tags : {<<>>, <<<<"a">>>>, <<<<"x">>, <<"d">>>>}]

\* GET /search on a table that holds items, up to the answer of
\* MetadataService.search_files.  ok: the scan does not raise.
SearchStored(items, query, filters, ok) ==
    /\ srch.pc = "idle"
    /\ srch' = IF ok
               THEN [NoSearch EXCEPT
                       !.pc = "rank", !.stored = items,
                       !.files = MetadataService_search_files(items, query,
                                                              filters.tags),
                       !.query = query, !.filters = filters]
               ELSE [NoSearch EXCEPT !.pc = "done", !.resp = "500"]
    /\ UNCHANGED <<lambdaVars, apiStore, apiTable, requests, req, op, tg,
                   versioning>>

\* SearchService._filter_and_rank_results, and the answer.
SearchRank ==
    /\ srch.pc = "rank"
    /\ LET filtered_files == DateFilter(srch.files, srch.filters)
           size_filtered_files == SizeFilter(filtered_files, srch.filters)
           result_files == CategoryFilter(size_filtered_files, srch.filters)
           scored_files == ScoredFiles(result_files, srch.query)
       IN srch' = [srch EXCEPT
                     !.pc = "done", !.resp = "200",
                     !.filtered_files = filtered_files,
                     !.size_filtered_files = size_filtered_files,
                     !.result_files = result_files,
                     !.scored_files =
                         SortByScore(scored_files, Len(scored_files))]
    /\ UNCHANGED <<lambdaVars, apiStore, apiTable, requests, req, op, tg,
                   versioning>>

\* ------------------------------------------------------- specifications
vars == <<lambdaVars, apiVars>>

Init == InitLambda /\ InitApi /\ versioning = FALSE

\* The Lambda pipeline; the API is not running.
Next == NextLambda

Spec == Init /\ [][Next]_vars

\* The Flask API; the Lambda pipeline is not running.
InitApiOnly ==
    /\ InitLambda
    /\ cfg = [quarantineBucket |-> FALSE, notificationTopic |-> FALSE,
              virusScanEndpoint |-> FALSE, analyzerFunction |-> FALSE]
    /\ InitApi
    /\ versioning = FALSE

SpecApi == InitApiOnly /\ [][NextApi]_vars

\* The quarantine scenario: several uploads of one day under one file name
\* (each at its own key <date>/<uuid>/<name>), and the scan handler alone.
\* process_upload is never called, so the table stays empty and the upload
\* handler's environment and the mock verdict of its scan_file play no part.
QuarantineKeys == 1..NumQuarantined

InitQuarantine ==
    /\ cfg \in Configs
    /\ ~cfg.virusScanEndpoint /\ ~cfg.analyzerFunction
    /\ s3obj = [k \in QuarantineKeys |-> NoObj]
    /\ created = {}
    /\ demoKeys = {}
    /\ quarantine = [n \in Names |-> 0]
    /\ table = {}
    /\ uuids = 0
    /\ extractQ = {}
    /\ up = UpIdle
    /\ sc = ScIdle
    /\ handled = {}
    /\ published = [k \in QuarantineKeys |-> 0]
    /\ qlog = NoQLog
    /\ presign = NoUrl
    /\ InitApi
    /\ versioning = FALSE

NextQuarantine ==
    \/ \E k \in QuarantineKeys, kind \in Kinds :
          PresignedPut(k, kind, TRUE, FALSE)
    \/ \E ev \in EventsOver(QuarantineKeys) : ScanInvoke(ev)
    \/ \E ok \in BOOLEAN : ScanSize(ok)
    \/ \E ok \in BOOLEAN : ScanFile(ok)
    \/ \E scanOk, updOk \in BOOLEAN : ScanUpdate(scanOk, updOk)
    \/ \E copyOk, delOk, pubOk \in BOOLEAN : ScanInfected(copyOk, delOk, pubOk)

SpecQuarantine == InitQuarantine /\ [][NextQuarantine]_vars

\* The API with its other routes: uploads of one accepted file (with or
\* without a tag), and requests on the ids the uploads were given.
TagLists == {<<>>, <<"t">>}
FileIds == 1..MaxRequests

NextFiles ==
    \/ \E tags \in TagLists :
          ApiStart("file", <<"a", ".", "p", "d", "f">>, Size(0, 0),
                   "text/plain", "plain", tags)
    \/ ApiValidate
    \/ \E readOk, raises \in BOOLEAN : ApiScan(readOk, raises)
    \/ \E uploadOk, headOk \in BOOLEAN : ApiStore(uploadOk, headOk)
    \/ \E err \in BackendErrors : ApiExtract(err)
    \/ \E ok \in BOOLEAN : ApiSave(ok)
    \/ \E ok \in BOOLEAN : ApiPresign(ok)
    \/ \E file_id \in FileIds, ok \in BOOLEAN : GetFile(file_id, ok)
    \/ \E file_id \in FileIds, ok \in BOOLEAN : DeleteGet(file_id, ok)
    \/ \E ok \in BOOLEAN : DeleteObject(ok)
    \/ \E ok \in BOOLEAN : DeleteRecord(ok)

InitFiles ==
    /\ InitLambda
    /\ cfg = [quarantineBucket |-> FALSE, notificationTopic |-> FALSE,
              virusScanEndpoint |-> FALSE, analyzerFunction |-> FALSE]
    /\ InitApi
    /\ versioning \in BOOLEAN

SpecFiles == InitFiles /\ [][NextFiles]_vars

\* The search: a scan that returns some records, then the filter and the rank.
\* A GET /search request arrives when none is being served.
SearchRequest ==
    /\ srch.pc = "idle"
    /\ \E files \in CandidateLists, query \in Queries,
          filters \in SearchFilters, ok \in BOOLEAN :
            SearchScan(files, query, filters, ok)

NextSearch ==
    \/ SearchRequest
    \/ SearchRank

SpecSearch == InitApiOnly /\ [][NextSearch]_vars

\* The pipeline on clean uploads with every call succeeding (but for the
\* extraction trigger, which may fail), and every handler run in the end:
\* the upload handler is called for the object, the S3 event reaches the
\* scan handler (at least once), the analyzer gets the events sent to it.
CleanKinds == {"clean", "large"}

NextLive ==
    \/ \E k \in Keys, kind \in CleanKinds, meta \in BOOLEAN :
          PresignedPut(k, kind, meta, FALSE)
    \/ \E k \in Keys : ProcessUploadHead(k, TRUE, FALSE)
    \/ ProcessUploadPut(TRUE)
    \/ \E ok \in BOOLEAN : ProcessUploadTrigger(ok)
    \/ \E ev \in EventsOver(Keys) : ScanInvoke(ev)
    \/ ScanSize(TRUE)
    \/ ScanFile(TRUE)
    \/ ScanUpdate(TRUE, TRUE)
    \/ \E k \in Keys, again \in BOOLEAN : AnalyzerRun(k, TRUE, again)

HandlersRun ==
    /\ WF_vars(\E k \in Keys : ProcessUploadHead(k, TRUE, FALSE))
    /\ WF_vars(ProcessUploadPut(TRUE))
    /\ WF_vars(\E ok \in BOOLEAN : ProcessUploadTrigger(ok))
    /\ WF_vars(\E ev \in EventsOver(Keys) : ScanInvoke(ev))
    /\ WF_vars(ScanSize(TRUE))
    /\ WF_vars(ScanFile(TRUE))
    /\ WF_vars(ScanUpdate(TRUE, TRUE))
    /\ WF_vars(\E k \in Keys : AnalyzerRun(k, TRUE, FALSE))

SpecLive == Init /\ [][NextLive]_vars /\ HandlersRun

\* The tags of a file and its derived metadata: uploads of one accepted file
\* with every call succeeding, PUT /files/<id>/tags, and update_metadata
\* called for the ids of the uploads.
NewTagLists == {<<>>, <<"n">>}

UploadsThatSucceed ==
    \/ \E tags \in TagLists :
          ApiStart("file", <<"a", ".", "p", "d", "f">>, Size(0, 0),
                   "text/plain", "plain", tags)
    \/ ApiValidate
    \/ ApiScan(TRUE, FALSE)
    \/ ApiStore(TRUE, TRUE)
    \/ ApiExtract(NoErr)
    \/ ApiSave(TRUE)
    \/ ApiPresign(TRUE)

NextTags ==
    \/ UploadsThatSucceed
    \/ \E file_id \in CallerIds, hasTags, ok \in BOOLEAN, tags \in NewTagLists :
          TagsGet(file_id, hasTags, tags, ok)
    \/ \E ok \in BOOLEAN : TagsUpdate(ok)
    \/ \E file_id \in CallerIds, metadata \in DerivedMetadata, ok \in BOOLEAN :
          UpdateMetadata(file_id, metadata, ok)

SpecTags == InitApiOnly /\ [][NextTags]_vars

\* The end of extraction on both sides: in the Lambda deployment clean
\* uploads that carry their file_id, process_upload and the analyzer; in the
\* API uploads and update_metadata.
InitExtraction ==
    /\ InitLambda
    /\ cfg = [quarantineBucket |-> FALSE, notificationTopic |-> FALSE,
              virusScanEndpoint |-> FALSE, analyzerFunction |-> TRUE]
    /\ InitApi
    /\ versioning = FALSE

NextExtraction ==
    \/ \E k \in Keys : PresignedPut(k, "clean", TRUE, FALSE)
    \/ \E k \in Keys : ProcessUploadHead(k, TRUE, FALSE)
    \/ ProcessUploadPut(TRUE)
    \/ ProcessUploadTrigger(TRUE)
    \/ \E k \in Keys, ok, again \in BOOLEAN : AnalyzerRun(k, ok, again)
    \/ UploadsThatSucceed
    \/ \E file_id \in CallerIds, metadata \in DerivedMetadata, ok \in BOOLEAN :
          UpdateMetadata(file_id, metadata, ok)

SpecExtraction == InitExtraction /\ [][NextExtraction]_vars

\* The redelivery of extraction events: for a key one event is sent, not a
\* second one while the first is to be delivered or has had its item stored;
\* the analyzer may get it any number of times.
TriggerOnce(ok) ==
    /\ up.key \notin extractQ
    /\ AnalyzerItems(up.key) = {}
    /\ ProcessUploadTrigger(ok)

NextRedelivery ==
    \/ \E k \in Keys, kind \in CleanKinds, meta \in BOOLEAN :
          PresignedPut(k, kind, meta, FALSE)
    \/ \E k \in Keys, headOk \in BOOLEAN : ProcessUploadHead(k, headOk, FALSE)
    \/ \E ok \in BOOLEAN : ProcessUploadPut(ok)
    \/ \E ok \in BOOLEAN : TriggerOnce(ok)
    \/ \E k \in Keys, ok, again \in BOOLEAN : AnalyzerRun(k, ok, again)

SpecRedelivery == InitExtraction /\ [][NextRedelivery]_vars

\* The scan handler's update of the records: clean uploads without file_id,
\* so that process_upload, called again, writes a record under a new uuid4
\* for the same object; the scan itself may fail, as may the table calls.
InitScanUpdate ==
    /\ InitLambda
    /\ cfg = [quarantineBucket |-> FALSE, notificationTopic |-> FALSE,
              virusScanEndpoint |-> FALSE, analyzerFunction |-> FALSE]
    /\ InitApi
    /\ versioning = FALSE

NextScanUpdate ==
    \/ \E k \in Keys : PresignedPut(k, "clean", FALSE, FALSE)
    \/ \E k \in Keys : ProcessUploadHead(k, TRUE, FALSE)
    \/ ProcessUploadPut(TRUE)
    \/ ProcessUploadTrigger(TRUE)
    \/ \E ev \in EventsOver(Keys) : ScanInvoke(ev)
    \/ ScanSize(TRUE)
    \/ \E ok \in BOOLEAN : ScanFile(ok)
    \/ \E scanOk, updOk \in BOOLEAN : ScanUpdate(scanOk, updOk)

SpecScanUpdate == InitScanUpdate /\ [][NextScanUpdate]_vars

\* A PUT /files/<id>/tags request and a DELETE /files/<id> request served at
\* the same time (two workers), on the records of uploads that succeed.
NextRace ==
    \/ UploadsThatSucceed
    \/ \E file_id \in CallerIds, hasTags, ok \in BOOLEAN, tags \in NewTagLists :
          TagsGet(file_id, hasTags, tags, ok)
    \/ \E ok \in BOOLEAN : TagsUpdate(ok)
    \/ \E file_id \in FileIds, ok \in BOOLEAN : DeleteGet(file_id, ok)
    \/ \E ok \in BOOLEAN : DeleteObject(ok)
    \/ \E ok \in BOOLEAN : DeleteRecord(ok)

SpecRace == InitApiOnly /\ [][NextRace]_vars

\* POST /files with bodies whose length is not the content length their part
\* declares: file.content_length is what the part's headers say (0 when they
\* say nothing), file.read() returns what the client sent.
BodyLengths == {Size(0, 0), MAX_FILE_SIZE, Size(5, 1)}

NextBody ==
    \/ \E size \in Sizes, length \in BodyLengths, bytes \in ByteKinds :
          ApiReceive("file", <<"a", ".", "p", "d", "f">>, size, length,
                     "text/plain", bytes, <<>>)
    \/ ApiValidate
    \/ \E readOk, raises \in BOOLEAN : ApiScan(readOk, raises)
    \/ \E uploadOk, headOk \in BOOLEAN : ApiStore(uploadOk, headOk)
    \/ \E err \in BackendErrors : ApiExtract(err)
    \/ \E ok \in BOOLEAN : ApiSave(ok)
    \/ \E ok \in BOOLEAN : ApiPresign(ok)

SpecBody == InitApiOnly /\ [][NextBody]_vars

\* process_upload with the scan endpoint configured: uploads that the scan
\* reports as a threat and uploads it does not, every call free to fail.
InitThreat ==
    /\ InitLambda
    /\ cfg.virusScanEndpoint
    /\ ~cfg.quarantineBucket /\ ~cfg.notificationTopic
    /\ InitApi
    /\ versioning = FALSE

NextThreat ==
    \/ \E k \in Keys, kind \in Kinds, meta, demo \in BOOLEAN :
          PresignedPut(k, kind, meta, demo)
    \/ \E k \in Keys, headOk, scanRaises \in BOOLEAN :
          ProcessUploadHead(k, headOk, scanRaises)
    \/ \E ok \in BOOLEAN : ProcessUploadPut(ok)
    \/ \E ok \in BOOLEAN : ProcessUploadDelete(ok)
    \/ \E ok \in BOOLEAN : ProcessUploadTrigger(ok)

SpecThreat == InitThreat /\ [][NextThreat]_vars

\* The scan handler on events of several records, any call free to fail.
Batches ==
    {e \in [1..MaxBatchRecords -> QuarantineKeys] :
        \A i, j \in DOMAIN e : i # j => e[i] # e[j]}

NextBatch ==
    \/ \E k \in QuarantineKeys, kind \in Kinds :
          PresignedPut(k, kind, TRUE, FALSE)
    \/ \E ev \in Batches : ScanInvoke(ev)
    \/ \E ok \in BOOLEAN : ScanSize(ok)
    \/ \E ok \in BOOLEAN : ScanFile(ok)
    \/ \E scanOk, updOk \in BOOLEAN : ScanUpdate(scanOk, updOk)
    \/ \E copyOk, delOk, pubOk \in BOOLEAN : ScanInfected(copyOk, delOk, pubOk)

SpecBatch == InitQuarantine /\ [][NextBatch]_vars

\* POST /files with every MIME type validate_file lets through (and one it
\* does not), each backend call free to fail.
DispatchMimeTypes == ALLOWED_MIME_TYPES \cup {"application/x-msdownload"}

NextDispatch ==
    \/ \E mime \in DispatchMimeTypes :
          ApiStart("file", <<"a", ".", "p", "d", "f">>, Size(0, 0), mime,
                   "plain", <<>>)
    \/ ApiValidate
    \/ ApiScan(TRUE, FALSE)
    \/ ApiStore(TRUE, TRUE)
    \/ \E err \in BackendErrors : ApiExtract(err)
    \/ ApiSave(TRUE)
    \/ ApiPresign(TRUE)

SpecDispatch == InitApiOnly /\ [][NextDispatch]_vars

\* POST /files with documents in which Textract finds a text and form keys.
TextractTexts ==
    {<<>>,
     <<"I", "n", "v", "o", "i", "c", "e">>,
     <<"R", "e", "c", "e", "i", "p", "t", " ", "f", "o", "r", " ", "I", "N",
     "V", "O", "I", "C", "E">>,
     <<"c", "o", "n", "t", "r", "a", "c", "t", " ", "r", "e", "c", "e", "i",
     "p", "t">>,
     <<"A", "g", "r", "e", "e", "m", "e", "n", "t", " ", "c", "v">>,
     <<"m", "y", " ", "C", "V">>,
     <<"R", "e", "s", "u", "m", "e">>,
     <<"h", "e", "l", "l", "o">>}
TextractKeys ==
    {{},
     {<<"I", "n", "v", "o", "i", "c", "e", " ", "N", "o">>},
     {<<"T", "o", "t", "a", "l", " ", "A", "m", "o", "u", "n", "t">>},
     {<<"T", "o", "t", "a", "l">>,
      <<"A", "m", "o", "u", "n", "t">>}}
TextractAnswers == [text : TextractTexts, keys : TextractKeys]

NextDocument ==
    \/ \E mime \in {"application/pdf", "text/plain"} :
          ApiStart("file", <<"a", ".", "p", "d", "f">>, Size(0, 0), mime,
                   "plain", <<>>)
    \/ ApiValidate
    \/ ApiScan(TRUE, FALSE)
    \/ ApiStore(TRUE, TRUE)
    \/ \E answer \in TextractAnswers, err \in BackendErrors :
          ApiExtractOf(answer, err)
    \/ ApiSave(TRUE)
    \/ ApiPresign(TRUE)

SpecDocument == InitApiOnly /\ [][NextDocument]_vars

\* GET /search on tables of records.
SearchTable ==
    /\ srch.pc = "idle"
    /\ \E items \in CandidateLists, query \in Queries,
          filters \in PrefilterFilters, ok \in BOOLEAN :
            SearchStored(items, query, filters, ok)

NextPrefilter ==
    \/ SearchTable
    \/ SearchRank

SpecPrefilter == InitApiOnly /\ [][NextPrefilter]_vars

\* The presigned upload: the URL is asked for, then the bytes are PUT to it.
PresignNames ==
    {<<"a">>, <<"a", ".", "p", "d", "f">>, <<"a", ".", "E", "x", "e">>,
     <<"a", ".", "j", "s">>, <<"a", ".", "b", ".", "J", "s">>,
     <<".", "j", "s">>}
PresignSizes == {[gib |-> 0, rest |-> 0], [gib |-> 5, rest |-> 0],
                 [gib |-> 5, rest |-> 1]}

NextPresign ==
    \/ \E k \in Keys, hasName, signOk \in BOOLEAN, filename \in PresignNames,
          file_size \in PresignSizes :
            GeneratePresignedUrl(k, hasName, filename, file_size, signOk)
    \/ \E kind \in Kinds, demo \in BOOLEAN : UrlPut(kind, demo)

SpecPresign == Init /\ [][NextPresign]_vars

TypeOK ==
    /\ cfg \in Configs
    /\ s3obj \in [Keys -> Objects \cup {NoObj}]
    /\ created \subseteq Keys
    /\ demoKeys \subseteq created
    /\ quarantine \in [Names -> 0..NumFiles]
    /\ \A r \in table : r.status \in Statuses /\ r.scan \in ScanStates
    /\ uuids \in 0..MaxUuid
    /\ extractQ \subseteq Keys
    /\ handled \subseteq Keys
    /\ published \in [Keys -> 0..MaxPublish]
    /\ presign.resp \in {"none", "200", "400", "500"}
    /\ apiStore \subseteq [key : 1..MaxRequests, bytes : ByteKinds]
    /\ requests \in 0..MaxRequests

\* ================================================================= claims
\* C1: once a file has received an infected verdict and the handling of the
\* verdict has finished (process_upload returned after its delete, or
\* handle_infected_file returned), its bytes are no longer in the primary
\* bucket.
C1_InfectedBytesUnreachable == \A k \in handled : s3obj[k] = NoObj

\* C2: once an item has upload_status infected, no later write of any
\* handler leaves the item with another status.
C2_InfectedIsTerminal ==
    [][\A r \in table : r.status = "infected" =>
          \A q \in table' : q.id = r.id => q.status = "infected"]_vars

\* C3: a scan that ended in error is treated like a detected threat: no item
\* holds an errored scan result together with status available, and
\* process_upload does not go on to trigger the extraction after scan_file
\* failed.
C3_ScanErrorFailsClosed ==
    /\ \A r \in table : r.scan = "error" => r.status # "available"
    /\ ~(up.pc = "trigger" /\ up.scan = "error")

\* C5: an item with status available refers to bytes that exist at its key
\* and whose scan completed and found no threat.
C5_AvailableIsStoredAndClean ==
    \A r \in table : r.status = "available" =>
        /\ r.key \in Keys
        /\ s3obj[r.key] # NoObj
        /\ r.scan = "clean"

\* C6: an item with status infected has no locator or one in the quarantine
\* bucket, never the key in the primary bucket.
C6_InfectedLocatorNotPrimary ==
    \A r \in table : r.status = "infected" => r.bucket \in {"none", "quarantine"}

\* C8: after the handling of an infected verdict an item of that file exists
\* with status infected and the scan result attached.
C8_InfectedRecordKept ==
    \A k \in handled :
        \E r \in table : r.key = k /\ r.status = "infected" /\ r.scan = "infected"

\* C9: in handle_infected_file the delete of the original is attempted also
\* when the copy into quarantine raised.
C9_DeleteAttemptedAfterCopyRaised == qlog.copy = "raised" => qlog.delete # "none"

\* C10: exactly one quarantine notification is published for every file
\* whose infected verdict has been handled.
C10_ExactlyOneNotification == \A k \in handled : published[k] = 1

\* --------------------------------------------------------------- POST /files
\* C4: when the scanning step raises, scan_file still returns a result, with
\* is_clean false and a non-empty threats list, and POST /files answers 400
\* without storing the file.
C4_ScanFailsClosed ==
    req.raised =>
        /\ ~req.scan.is_clean
        /\ req.scan.threats # <<>>
        /\ req.pc = "done" /\ req.resp = "400"
        /\ "store" \notin {req.steps[i] : i \in DOMAIN req.steps}
        /\ \A o \in apiStore : o.key # req.id
        /\ \A r \in apiTable : r.id # req.id

\* C4 witness: a request whose scan raised has been answered.
C4_Witness == req.raised /\ req.pc = "done" /\ req.bytes = "plain"

UploadOrder == <<"validate", "scan", "store", "extract", "save">>

\* C7: the steps of POST /files run in the order validate, scan, store,
\* extract, save; a request that fails validation or whose scan is not clean
\* has written no object, and one that fails validation no item either.
C7_RejectedBeforeStore ==
    /\ req.steps = SubSeq(UploadOrder, 1, Len(req.steps))
    /\ (req.pc # "validate" /\ req.part = "file"
          /\ ~validate_file(req.name, req.size, req.mime).is_valid) =>
            /\ req.pc = "done" /\ req.resp = "400"
            /\ req.steps = <<"validate">>
            /\ \A o \in apiStore : o.key # req.id
            /\ \A r \in apiTable : r.id # req.id
    /\ ~req.scan.is_clean =>
            /\ req.pc = "done" /\ req.resp = "400"
            /\ req.steps = <<"validate", "scan">>
            /\ \A o \in apiStore : o.key # req.id

\* C7 witness: with an object of an earlier request in the store, a request
\* whose bytes hold the virus string has been rejected by the scan.
C7_Witness ==
    /\ req.pc = "done" /\ req.resp = "400"
    /\ ~req.scan.is_clean /\ ~req.raised
    /\ apiStore # {}

\* C11: the bytes the scan handler copied to a quarantine key stay the bytes
\* that key returns, whatever infected uploads are handled afterwards: no
\* later quarantine replaces them by the bytes of another file.
C11_QuarantinedBytesKept ==
    [][\A n \in Names :
          quarantine[n] # 0 => quarantine'[n] = quarantine[n]]_vars

\* C12: when the upload to the content store raised (upload_fileobj, or the
\* head_object after it), the request has ended with 500 right there: its
\* last step is the store, and the table holds no item of this upload.
C12_StoreFailureEndsRequest ==
    req.failed = "store" =>
        /\ req.pc = "done" /\ req.resp = "500"
        /\ req.steps = <<"validate", "scan", "store">>
        /\ \A r \in apiTable : r.id # req.id

\* C12 witness: an upload has failed in upload_fileobj itself, while the
\* table holds the item of an earlier upload.
C12_Witness ==
    /\ req.failed = "store"
    /\ \A o \in apiStore : o.key # req.id
    /\ apiTable # {}

\* C13: when a backend call of the extraction raised (label detection, text
\* detection or document analysis; a ClientError or any other exception),
\* extract_metadata has returned a FileMetadata all the same and the request
\* went on to save the record: it is not ended by the extraction, and once
\* it has ended without a failure of a later call, it was answered 201 and
\* the table holds its item with the value returned.
C13_ExtractionNeverBlocks ==
    req.xerr # NoErr =>
        /\ req.failed # "extract"
        /\ req.pc \in {"save", "presign", "done"}
        /\ req.meta # NoMeta /\ ~req.meta.raised
        /\ (req.pc = "done" /\ req.failed = "none") =>
               /\ req.resp = "201"
               /\ \E r \in apiTable : r.id = req.id /\ r.metadata = req.meta

\* C13 witness: an upload whose extraction backend raised something other
\* than a ClientError has been answered 201.
C13_Witness ==
    /\ req.xerr # NoErr /\ req.xerr.kind = "other"
    /\ req.pc = "done" /\ req.resp = "201"

\* C14: the step of handle_infected_file in which sns.publish raised leaves
\* the quarantine as it was made (the bytes copied to the quarantine key,
\* the original deleted), publishes nothing more, and the handler goes on
\* with its loop as after a successful handling: it does not answer 500.
C14_PublishFailureSwallowed ==
    [][(sc.pc = "infected" /\ sc' # sc /\ qlog'.publish = "raised") =>
          LET k == sc.ev[sc.i]
          IN /\ qlog'.copy = "ok" => quarantine'[BaseName(k)] = k
             /\ qlog'.delete = "ok" => s3obj'[k] = NoObj
             /\ published' = published
             /\ sc' = NextRecord(sc)
             /\ sc'.resp # "500"]_vars

\* C14 witness: the handler has returned 200 for an event whose file was
\* quarantined and whose notification failed.
C14_Witness ==
    /\ qlog.copy = "ok" /\ qlog.delete = "ok" /\ qlog.publish = "raised"
    /\ quarantine[BaseName(qlog.key)] = qlog.key
    /\ s3obj[qlog.key] = NoObj
    /\ sc.pc = "idle" /\ sc.resp = "200"

\* The items of the table that describe the file uploaded at key k: those
\* process_upload wrote for the key, and those the analyzer wrote for it.
RecordsOf(k) ==
    {r \in table : r.key = k \/ (r.id[1] = "md5" /\ r.id[2] = k)}

\* C15: every uploaded file has at most one metadata record: no handler
\* adds a record under another id for a file that has one already.
C15_OneRecordPerFile == \A k \in created : Cardinality(RecordsOf(k)) <= 1

\* The request has been through validate_file.
Validated == req.steps # <<>>

\* s > 5 * 1024^3, on the sizes as the model writes them.
TooLarge(s) == s.gib > 5 \/ (s.gib = 5 /\ s.rest > 0)

\* C16 as stated: validate_file rejects exactly the files larger than
\* MAX_FILE_SIZE, whatever their name and MIME type.
C16_RejectsIffTooLarge ==
    Validated => (~req.validation.is_valid <=> TooLarge(req.size))

\* C16 amended: validate_file rejects every file larger than MAX_FILE_SIZE,
\* and gives the size reason exactly for these files, whatever their name
\* and MIME type.
C16_SizeCheckExact ==
    Validated =>
        /\ TooLarge(req.size) => ~req.validation.is_valid
        /\ TooLarge(req.size) <=>
              req.validation.message = "File size exceeds maximum allowed (5GB)"

\* C16 witness: a file of exactly MAX_FILE_SIZE bytes with a deny-listed
\* name has been rejected, for a reason other than its size.
C16_Witness ==
    /\ Validated /\ req.size = Size(5, 0)
    /\ ~req.validation.is_valid
    /\ req.validation.message # "File size exceeds maximum allowed (5GB)"

\* The characters after the last "." of the name, in lower case, are on the
\* deny-list.
DenyListed(name) ==
    \E i \in DOMAIN name :
        /\ name[i] = "."
        /\ \A j \in (i + 1)..Len(name) : name[j] # "."
        /\ Lower(SubSeq(name, i + 1, Len(name))) \in
              {<<"e", "x", "e">>, <<"b", "a", "t">>, <<"c", "m", "d">>,
               <<"s", "h">>, <<"j", "s">>, <<"v", "b", "s">>,
               <<"p", "s", "1">>, <<"j", "a", "r">>, <<"m", "s", "i">>,
               <<"c", "o", "m">>, <<"s", "c", "r">>}

HasDot(name) == \E i \in DOMAIN name : name[i] = "."

\* C17: validate_file rejects every name whose extension is on the
\* deny-list in any letter case, whatever the size and the MIME type, and
\* never gives the extension reason for a name without ".".
C17_DenyListedRejected ==
    Validated =>
        /\ DenyListed(req.name) => ~req.validation.is_valid
        /\ ~HasDot(req.name) =>
              req.validation.message # "File extension not allowed: ."

\* C17 witness: a name with an upper-case deny-listed extension after its
\* last "." has been rejected by the extension check.
C17_Witness ==
    /\ Validated /\ DenyListed(req.name) /\ Lower(req.name) # req.name
    /\ req.validation.message = "File extension not allowed: ."

\* C18: the result of validate_file is that of the first failing check in
\* the order size, MIME allow-list, extension deny-list, it is valid exactly
\* when all three pass, and the validation has written nothing.
C18_FirstFailingCheck ==
    Validated =>
        /\ req.validation.message =
              IF TooLarge(req.size)
              THEN "File size exceeds maximum allowed (5GB)"
              ELSE IF req.mime \notin ALLOWED_MIME_TYPES
              THEN "File type not allowed: " \o req.mime
              ELSE IF DenyListed(req.name)
              THEN "File extension not allowed: ."
              ELSE ""
        /\ req.validation.is_valid <=>
              /\ ~TooLarge(req.size)
              /\ req.mime \in ALLOWED_MIME_TYPES
              /\ ~DenyListed(req.name)
        /\ req.steps = <<"validate">> =>
              /\ \A o \in apiStore : o.key # req.id
              /\ \A r \in apiTable : r.id # req.id

\* C18 witness: a file failing all three checks has been rejected for its
\* size.
C18_Witness ==
    /\ Validated /\ TooLarge(req.size)
    /\ req.mime \notin ALLOWED_MIME_TYPES /\ DenyListed(req.name)
    /\ req.validation.message = "File size exceeds maximum allowed (5GB)"

\* C19: no URL is issued, and so no object stored, for a file name whose
\* extension is on the validator's deny-list.
C19_NoUrlForDenyListed ==
    /\ presign.resp = "200" => ~DenyListed(presign.filename)
    /\ \A k \in created : presign.key = k => ~DenyListed(presign.filename)

\* The request was answered 400 by one of the rejections of upload_file.
Rejected ==
    \/ req.part \in {"missing", "empty"}
    \/ Validated /\ ~req.validation.is_valid
    \/ Len(req.steps) >= 2 /\ ~req.scan.is_clean

\* validate, scan, store, extract and save have all succeeded: the request
\* has entered all five, its object is in the store and its item in the
\* table.
FiveSucceeded ==
    /\ req.steps = UploadOrder
    /\ \E o \in apiStore : o.key = req.id
    /\ \E r \in apiTable : r.id = req.id /\ r.path = req.id

\* The messages of the rejections that come before the scan.
ValidationMessages ==
    {"No file uploaded", "No file selected"} \cup
    {validate_file(n, z, m).message : n \in FileNames, z \in Sizes,
                                      m \in MimeTypes}

\* C20 as stated: an answered POST /files has 400 exactly for a rejection,
\* 201 exactly when validate, scan, store, extract and save all succeeded,
\* 500 when the store or the metadata store raised, and the message of a
\* threat is none of the validation messages.
C20_ResponseCodes ==
    req.pc = "done" =>
        /\ req.resp = "400" <=> Rejected
        /\ req.resp = "201" <=> FiveSucceeded
        /\ req.failed \in {"store", "save"} => req.resp = "500"
        /\ (req.resp = "400" /\ Len(req.steps) >= 2) =>
              req.error \notin ValidationMessages

\* C20 amended: 201 exactly when the five steps and the generation of the
\* presigned URL all succeeded; 500 exactly when a call raised into the
\* except of upload_file (file.read, the store, the metadata store, the
\* presigning); the rest as stated.
C20_ResponseCodesWithPresign ==
    req.pc = "done" =>
        /\ req.resp = "400" <=> Rejected
        /\ req.resp = "201" <=> (FiveSucceeded /\ req.failed = "none")
        /\ req.resp = "500" <=> req.failed # "none"
        /\ req.failed \in {"store", "save"} => req.resp = "500"
        /\ (req.resp = "400" /\ Len(req.steps) >= 2) =>
              req.error \notin ValidationMessages

\* C20 witness: a request whose five steps succeeded was answered 500
\* because the presigning raised, after an earlier request got its 201.
C20_Witness ==
    /\ req.pc = "done" /\ FiveSucceeded
    /\ req.failed = "presign" /\ req.resp = "500"
    /\ Cardinality(apiTable) = 2

Ranked == srch.pc = "done" /\ srch.resp = "200"
Range(s) == {s[i] : i \in DOMAIN s}
PlaceOf(files, id) == CHOOSE i \in DOMAIN files : files[i].id = id

\* C22: the ranked list holds the surviving records in descending order of
\* score, records of one score in the order the scan returned them; with an
\* empty query every survivor scores 1.0 (2 half points) and the list is the
\* survivors in their order.
C22_DescendingStable ==
    Ranked =>
       /\ Len(srch.scored_files) = Len(srch.result_files)
       /\ {p.file : p \in Range(srch.scored_files)} = Range(srch.result_files)
       /\ \A i, j \in DOMAIN srch.scored_files :
             i < j =>
                /\ srch.scored_files[i].score >= srch.scored_files[j].score
                /\ srch.scored_files[i].score = srch.scored_files[j].score
                      => PlaceOf(srch.files, srch.scored_files[i].file.id)
                           < PlaceOf(srch.files, srch.scored_files[j].file.id)
       /\ srch.query = <<>> =>
             \A i \in DOMAIN srch.scored_files :
                /\ srch.scored_files[i].score = 2
                /\ srch.scored_files[i].file = srch.result_files[i]
C22_Witness ==
    /\ Ranked /\ srch.query # <<>> /\ Len(srch.scored_files) = 2
    /\ srch.scored_files[1].score = srch.scored_files[2].score
    /\ srch.scored_files[1].score > 2

\* The record is within the windows of the filters and, if categories are
\* asked for, has one of them, whatever the case of the letters.
Passes(file, filters) ==
    /\ filters.uploaded_after = None
          \/ file.uploaded_at >= filters.uploaded_after
    /\ filters.uploaded_before = None
          \/ file.uploaded_at <= filters.uploaded_before
    /\ filters.min_size = None \/ file.size >= filters.min_size
    /\ filters.max_size = None \/ file.size <= filters.max_size
    /\ filters.categories = <<>>
          \/ {Lower(c) : c \in Range(filters.categories)}
               \cap {Lower(c) : c \in Range(file.categories)} # {}

\* C23: the records returned are exactly the candidates within the upload
\* window, within the size window and, if categories are asked for, of one
\* of them (case-insensitively); every stage only removes records, the
\* stages give the same list in any order, and a record scoring 0 stays.
C23_ExactlyTheMatching ==
    Ranked =>
       /\ {p.file : p \in Range(srch.scored_files)}
             = {f \in Range(srch.files) : Passes(f, srch.filters)}
       /\ Range(srch.filtered_files) \subseteq Range(srch.files)
       /\ Range(srch.size_filtered_files) \subseteq Range(srch.filtered_files)
       /\ Range(srch.result_files) \subseteq Range(srch.size_filtered_files)
       /\ srch.result_files
             = DateFilter(CategoryFilter(SizeFilter(srch.files, srch.filters),
                                         srch.filters), srch.filters)
       /\ srch.result_files
             = SizeFilter(DateFilter(CategoryFilter(srch.files, srch.filters),
                                     srch.filters), srch.filters)
       /\ srch.result_files
             = CategoryFilter(DateFilter(SizeFilter(srch.files, srch.filters),
                                         srch.filters), srch.filters)
C23_Witness ==
    /\ Ranked /\ srch.query # <<>>
    /\ Len(srch.scored_files) = 1 /\ Len(srch.files) = 2
    /\ srch.scored_files[1].score = 0
    /\ srch.filters.categories # <<>> /\ srch.filters.min_size # None
    /\ srch.scored_files[1].file.size = srch.filters.min_size
    /\ Range(srch.filters.categories)
          \cap Range(srch.scored_files[1].file.categories) = {}

\* The whitespace-separated words of a query: a word starts at a letter that
\* stands first or behind a blank, and runs up to the next blank.
WordStart(str, i) == str[i] # " " /\ (i = 1 \/ str[i - 1] = " ")
WordAt(str, i) ==
    SubSeq(str, i, CHOOSE j \in i..Len(str) :
                      /\ \A k \in i..j : str[k] # " "
                      /\ j = Len(str) \/ str[j + 1] = " ")
\* The points of one value for the query and for each of its words.
StatedPoints(value, query, whole, each) ==
    (IF Contains(Lower(query), Lower(value)) THEN whole ELSE 0)
    + SumTo([i \in DOMAIN query |->
               IF WordStart(query, i)
                  /\ Contains(Lower(WordAt(query, i)), Lower(value))
               THEN each ELSE 0], Len(query))
StatedScore(file, query) ==
    StatedPoints(file.name, query, 20, 10)
    + SumTo([i \in DOMAIN file.tags |->
               StatedPoints(file.tags[i], query, 6, 3)], Len(file.tags))
    + SumTo([i \in DOMAIN file.categories |->
               StatedPoints(file.categories[i], query, 6, 3)],
            Len(file.categories))
    + FindAll(Lower(query), Lower(file.extracted_text)) * 4
    + SumTo([i \in DOMAIN query |->
               IF WordStart(query, i)
               THEN FindAll(Lower(WordAt(query, i)),
                            Lower(file.extracted_text))
               ELSE 0], Len(query))
    + SumTo([i \in DOMAIN file.entities |->
               StatedPoints(file.entities[i], query, 4, 2)],
            Len(file.entities))

\* C24: for a query that is not empty the score of a record is, in half
\* points, 20 if the name holds the query and 10 for each word of the query
\* the name holds; 6 and 3 likewise for each tag and each category; 4 for
\* each occurrence of the query and 1 for each occurrence of each word in the
\* extracted text; 4 and 2 for each entity text; all case-insensitively.
C24_ScoreAsStated ==
    (Ranked /\ srch.query # <<>>) =>
       \A p \in Range(srch.scored_files) :
          p.score = StatedScore(p.file, srch.query)

C26_CleanBecomesAvailable ==
    \A k \in Keys :
       (/\ s3obj[k].kind \in CleanKinds
        /\ \E r \in ItemsFor(k) : r.status = "processing")
          ~> (\E r \in ItemsFor(k) : r.status = "available")

\* C27: the end of extraction changes no existing record but in its derived
\* metadata: the analyzer's store_metadata leaves every record of the table
\* as it is (status, locator and all), and update_metadata leaves every
\* field of every record but metadata and updated_at as it is.
C27_ExtractionKeepsRecords ==
    [][/\ (table' # table /\ up' = up /\ sc' = sc) =>
             \A r \in table : r \in table'
       /\ (apiTable' # apiTable /\ req' = req) =>
             \A r \in apiTable :
                \E n \in apiTable' :
                   n = [r EXCEPT !.metadata = n.metadata,
                                 !.updated_at = n.updated_at]]_vars
C27_Witness ==
    /\ \E r \in table : r.status = "processing" /\ AnalyzerItems(r.key) # {}
    /\ \E r \in apiTable :
          /\ r.saved /\ r.tags = <<"t">> /\ r.updated_at
          /\ r.metadata \in DerivedMetadata

\* C28: delivering the event of a key to the analyzer again leaves the table
\* with the records one delivery leaves: one record of the analyzer for the
\* key.
C28_RedeliveryAddsNothing ==
    \A k \in Keys : Cardinality(AnalyzerItems(k)) <= 1

\* The record of this id in a table, if it has one.
RecordOf(t, id) == CHOOSE r \in t : r.id = id
Has(t, id) == \E r \in t : r.id = id

\* C30: PUT /files/<id>/tags sets the tags of the record to the list given
\* and leaves every other field but updated_at, and every other record, as
\* it is; update_metadata leaves the tags of every record as they are, so
\* that after any interleaving the record holds the tags written last and
\* the metadata written last; for an id without a record the request answers
\* 404 and the table stays as it is.
C30_TagsReplacedAlone ==
    [][/\ (tg.pc = "update" /\ tg'.resp = "200" /\ Has(apiTable, tg.id)) =>
             /\ RecordOf(apiTable', tg.id)
                   = [RecordOf(apiTable, tg.id) EXCEPT !.tags = tg.tags,
                                                       !.updated_at = TRUE]
             /\ \A r \in apiTable : r.id # tg.id => r \in apiTable'
             /\ Cardinality(apiTable') = Cardinality(apiTable)
       /\ (apiTable' # apiTable /\ req' = req /\ tg' = tg) =>
             \A r \in apiTable :
                /\ Has(apiTable', r.id)
                /\ RecordOf(apiTable', r.id).tags = r.tags
       /\ (tg' # tg /\ tg.pc # "update" /\ ~Has(apiTable, tg'.id)) =>
             (tg'.resp \in {"404", "500"} /\ apiTable' = apiTable)
       /\ (tg' # tg /\ tg'.resp = "404") => ~Has(apiTable', tg'.id)]_vars
C30_Witness ==
    /\ tg.resp = "200" /\ tg.tags = <<"n">>
    /\ \E r \in apiTable :
          /\ r.id = tg.id /\ r.saved /\ r.tags = <<"n">>
          /\ r.metadata \in DerivedMetadata
    /\ \E r \in apiTable : r.id # tg.id /\ r.tags = <<"t">>

\* C29: update_metadata of the scan handler rewrites at most one record, one
\* of those of the bucket and key scanned, and in it the scan result and the
\* status alone; every other record stays as it is and no record is made or
\* removed; when no record is of the bucket and key the table stays as it is.
C29_OneRecordUpdated ==
    [][(sc.pc = "update" /\ sc' # sc) =>
          LET k == sc.ev[sc.i]
          IN /\ Cardinality(table \ table') <= 1
             /\ {r.id : r \in table'} = {r.id : r \in table}
             /\ Cardinality(table') = Cardinality(table)
             /\ \A r \in table \ table' :
                   /\ r.key = k /\ r.bucket = "primary"
                   /\ \E n \in table' :
                         n = [r EXCEPT !.scan = sc.res, !.status = n.status]
             /\ (\A r \in table : r.key # k) => table' = table]_vars
C29_Witness ==
    \E r, n \in table :
       /\ r.id # n.id /\ r.key = n.key
       /\ r.status = "available" /\ n.status = "available"
       /\ r.scan = "clean" /\ n.scan = "error"

\* C31: once a DELETE that succeeded and a PUT of tags for the same id have
\* both come to their answer, the table holds no record of that id.
C31_NoRecordAfterDelete ==
    (/\ op.kind = "delete" /\ op.pc = "done" /\ op.resp = "200"
     /\ tg.pc = "done" /\ tg.id = op.id)
       => \A r \in apiTable : r.id # op.id

\* C34: the record a POST /files request saves has a size (the length of the
\* bytes it stored) of at most MAX_FILE_SIZE.
C34_SavedSizeBounded ==
    (\E r \in apiTable : r.id = req.id) =>
        ~SizeGreater(req.length, MAX_FILE_SIZE)

\* C35: when a POST /files request has ended, the store holds an object of
\* that request only if a record with the object's key as path was saved.
C35_NoObjectWithoutRecord ==
    req.pc = "done" =>
        \A o \in apiStore :
            o.key = req.id => \E r \in apiTable : r.path = o.key

\* C32 (as stated): once the scan of process_upload has reported a threat,
\* the invocation answers 400.
C32_ThreatAnswers400 ==
    [][(up.status = "infected" /\ up'.pc = "idle") => up'.resp = "400"]_vars

\* C32 (amended): once the scan has reported a threat, the delete is only
\* attempted with the infected record written, the extraction trigger is
\* never reached, the answer is 400 when the delete removed the bytes and 500
\* when the put or the delete failed, and the delete, failed or not, leaves
\* the record infected.
InfectedRecord(k) ==
    \E r \in table : r.key = k /\ r.status = "infected"

C32_ThreatBranch ==
    [][up.status = "infected" =>
         /\ up.pc = "delete" => InfectedRecord(up.key)
         /\ up'.pc # "trigger" /\ extractQ' = extractQ
         /\ up.pc = "delete" => table' = table
         /\ up'.pc = "idle" =>
              up'.resp = IF up.pc = "delete" /\ s3obj'[up.key] = NoObj
                         THEN "400" ELSE "500"]_vars

C32_Witness ==
    /\ up.resp = "400"
    /\ \E r \in table : r.status = "infected" /\ s3obj[r.key] = NoObj

\* C33: the scan handler returns only from the last record of its event: no
\* record is left that was neither scanned nor reported as skipped.
C33_EveryRecordReached ==
    [][(sc.pc # "idle" /\ sc'.pc = "idle") => sc.i = Len(sc.ev)]_vars

\* C37: the metadata extract_metadata returned never has both payloads; an
\* image payload only for an image/ type and a document payload only for
\* application/pdf or a type with "document" or "spreadsheet" in it; those
\* types get their pipeline's value when no backend call fails, and a backend
\* is only called for them; any other type gets its raw content type alone.
C37_DispatchOnMimeType ==
    req.meta # NoMeta =>
        LET m == req.meta
        IN /\ ~(m.image_data /\ m.document_data)
           /\ m.image_data => req.mime \in ImageMimeTypes
           /\ m.document_data => req.mime \in DocumentMimeTypes
           /\ req.xerr.call \in {"detect_labels", "detect_text"} =>
                 req.mime \in ImageMimeTypes
           /\ req.xerr.call = "analyze_document" =>
                 req.mime \in DocumentMimeTypes
           /\ (req.mime \in ImageMimeTypes /\ req.xerr = NoErr) =>
                 m.image_data /\ m.content_type = "image"
           /\ (req.mime \in DocumentMimeTypes /\ req.xerr = NoErr) =>
                 m.document_data /\ m.content_type = "document"
           /\ req.mime \notin ImageMimeTypes \cup DocumentMimeTypes =>
                 /\ m.content_type = req.mime
                 /\ ~m.extracted /\ ~m.image_data /\ ~m.document_data

C37_Witness ==
    /\ req.meta.image_data
    /\ \E r \in apiTable : r.metadata.document_data

\* C38: when a backend call of the extraction failed, the metadata returned
\* is the content-type-only value of the upload's raw MIME type.
C38_FailureGivesRawType ==
    (req.meta # NoMeta /\ req.xerr # NoErr) =>
        req.meta = FileMetadata(req.mime, FALSE)

\* C39: the document type is the first of invoice, receipt, contract and
\* resume whose marker is in the lower-cased text or form keys, and document
\* when none is.
Says(text, word) == Contains(word, Lower(text))

IsInvoice(a) ==
    \/ Says(a.text, <<"i", "n", "v", "o", "i", "c", "e">>)
    \/ \E key \in a.keys : Says(key, <<"i", "n", "v", "o", "i", "c", "e">>)

IsReceipt(a) ==
    \/ Says(a.text, <<"r", "e", "c", "e", "i", "p", "t">>)
    \/ \E key \in a.keys : /\ Says(key, <<"t", "o", "t", "a", "l">>)
                           /\ Says(key, <<"a", "m", "o", "u", "n", "t">>)

IsContract(a) ==
    \/ Says(a.text, <<"c", "o", "n", "t", "r", "a", "c", "t">>)
    \/ Says(a.text, <<"a", "g", "r", "e", "e", "m", "e", "n", "t">>)

IsResume(a) ==
    \/ Says(a.text, <<"r", "e", "s", "u", "m", "e">>)
    \/ Says(a.text, <<"c", "v">>)
    \/ Says(a.text, <<"c", "u", "r", "r", "i", "c", "u", "l", "u", "m", " ",
                    "v", "i", "t", "a", "e">>)

C39_FirstMatchingType ==
    req.meta.document_data =>
        LET a == req.answer
            d == req.meta.document_type
        IN /\ d = "invoice" <=> IsInvoice(a)
           /\ d = "receipt" <=> ~IsInvoice(a) /\ IsReceipt(a)
           /\ d = "contract" <=>
                 ~IsInvoice(a) /\ ~IsReceipt(a) /\ IsContract(a)
           /\ d = "resume" <=>
                 /\ ~IsInvoice(a) /\ ~IsReceipt(a) /\ ~IsContract(a)
                 /\ IsResume(a)
           /\ d = "document" <=>
                 /\ ~IsInvoice(a) /\ ~IsReceipt(a) /\ ~IsContract(a)
                 /\ ~IsResume(a)

C39_Witness ==
    /\ req.meta.document_data
    /\ IsInvoice(req.answer) /\ IsReceipt(req.answer)
    /\ req.meta.document_type = "invoice"

\* C36: a search returns every record of the table that passes the filters
\* and that the ranker scores above 0 for the query.
C36_NoMatchDropped ==
    (srch.pc = "done" /\ srch.resp = "200") =>
        \A i \in DOMAIN srch.stored :
            LET f == srch.stored[i]
            IN (/\ Passes(f, srch.filters)
                /\ srch.filters.tags = <<>>
                      \/ Range(srch.filters.tags) \cap Range(f.tags) # {}
                /\ calculate_relevance_score(f, srch.query) > 0) =>
                  \E j \in DOMAIN srch.scored_files :
                      srch.scored_files[j].file = f
====
